---- MODULE Spec2Model ----
(***************************************************************************)
(* Target side of the RTT ring-buffer protocol (probe-rs/rtt-target).      *)
(*                                                                         *)
(* One channel descriptor (buffer, size, write, read, flags) is shared     *)
(* between the target, which runs the operations of src/src/rtt.rs and     *)
(* src/src/lib.rs one memory access at a time, and the host (the debug     *)
(* probe), which reads and writes the same memory between any two of the   *)
(* target's accesses.                                                      *)
(***************************************************************************)
EXTENDS Integers, Sequences, FiniteSets, TLC

\* Bounds of the model.
MaxSize == 3
MaxLen == 3
MaxBytes == 6
MaxCorrupt == 1
MaxTxSize == 4
MaxTxBytes == 6
MaxPrintSize == 4
MaxPrintBytes == 8
MaxUp == 2
MaxDown == 1
MaxTwoSize == 2
MaxTwoLen == 2
MaxTwoBytes == 3
MaxLoopSize == 4

VARIABLES
    dir,        \* "up" (target produces) or "down" (host produces)
    size,       \* RttChannel.size
    buffer,     \* RttChannel.buffer: 0..size-1 -> byte
    write,      \* RttChannel.write
    read,       \* RttChannel.read
    pc,         \* position of the target inside its current operation
    op,         \* the operation the target runs, or ran last
    l_write,    \* local `write` of RttChannel::read / RttChannel::write
    l_read,     \* local `read`
    buf,        \* the rest of the caller's slice `buf`
    total,      \* local `total`
    count,      \* local `count` of the copy in progress
    ci,         \* bytes of the copy in progress already moved
    ret,        \* value returned by the last completed operation
    produced,   \* bytes handed to the producer so far (payload byte k has value k)
    inflight,   \* history: bytes published and not yet taken by the consumer, oldest first
    fifoOk,     \* history: every byte the consumer took was the oldest byte in flight
    corrupted,  \* history: an out-of-range index was stored and not yet reset
    tainted,    \* history: out-of-range store since the current operation began
    sawCorrupt, \* history: read_pointers of the current operation reset the indices
    len0,       \* history: |buf| when the current operation was called
    w0,         \* history: `write` as sampled by the current operation
    free0,      \* history: free bytes as sampled by the current operation
    oob,        \* history: an access outside buffer[0..size) happened
    ncorrupt,   \* history: number of out-of-range stores by the host so far
    pub0,       \* history: |inflight| when the current operation sampled `write`
    flags,      \* RttChannel.flags: the mode in its low two bits
    handle,     \* "up": the owner holds an UpChannel; "terminal": a TerminalChannel
    current,    \* TerminalChannel.current
    tx_write,   \* writer transaction: the local cursor
    tx_failed,  \* writer transaction: the failed flag
    tx_bytes,   \* history: bytes the open transaction copied into the ring
    t_num,      \* TerminalWriter.number
    t_pre       \* history: `current` when TerminalChannel::write was called

chanVars == <<dir, size, buffer, write, read>>
tgtVars == <<pc, op, l_write, l_read, buf, total, count, ci, ret>>
histVars == <<produced, inflight, fifoOk, corrupted, tainted, sawCorrupt, len0, w0, free0, oob, ncorrupt,
              pub0>>
txVars == <<flags, handle, current, tx_write, tx_failed, tx_bytes, t_num, t_pre>>

VARIABLES
    cs_ptr,     \* CRITICAL_SECTION: "null" or "set"
    term_init,  \* PRINT_TERMINAL has been written
    owner,      \* the context inside the critical section, or "none"
    p_pc,       \* position of each context inside print_impl / set_print_channel_cs
    p_num,      \* `number` argument of each context's print call
    p_cur,      \* each context's RttWriter: the transaction's cursor
    p_failed,   \* each context's RttWriter: the failed flag
    p_bytes,    \* history: bytes each context's transaction has copied
    p_buf       \* the slice each context is appending

printVars == <<cs_ptr, term_init, owner, p_pc, p_num, p_cur, p_failed, p_bytes, p_buf>>

VARIABLES
    decl,       \* the channels declared to rtt_init!: for up and down, a sequence of
                \* [size, given (a mode is declared), mode]
    i_pc,       \* position of the target inside rtt_init!
    i_next,     \* number of channels of the current array already initialised
    id,         \* RttHeader.id: 16 bytes
    max_up,     \* RttHeader.max_up_channels
    max_down,   \* RttHeader.max_down_channels
    ups,        \* up_channels: sequence of descriptors [buffer (pointer set), size, flags]
    downs,      \* down_channels
    scan        \* history: what the host found when it last looked for the control block

initVars == <<decl, i_pc, i_next, id, max_up, max_down, ups, downs, scan>>

VARIABLES
    m_ch,       \* two channels of one control block: for channel 1 and 2 the
                \* descriptor [dir, size, write, read, flags]
    m_mem,      \* the memory that holds the two buffers, one after the other
    m_ctx,      \* for each context its operation in progress on the channel it
                \* owns: [pc, l_write, l_read, buf, data]
    m_inflight, \* history, for each channel: the bytes produced and not yet consumed
    m_fifoOk,   \* history, for each channel: every byte consumed was the oldest in flight
    m_produced  \* history, for each channel: the number of bytes produced so far

twoVars == <<m_ch, m_mem, m_ctx, m_inflight, m_fifoOk, m_produced>>

VARIABLES
    h_term      \* history: the terminal selected by the last escape published on
                \* the channel (0 before any), which is the terminal the host is on
                \* when it reads the bytes published next

muxVars == <<h_term>>

VARIABLES
    last_set    \* history: the mode given to the last set_mode, or -1 if there was
                \* none or the host has stored flags since

modeVars == <<last_set>>

VARIABLES
    abandoned   \* history: the bytes that the transaction open at the panic had
                \* copied into the ring and not committed

panicVars == <<abandoned>>

extVars == <<printVars, initVars, twoVars, muxVars, modeVars, panicVars>>
vars == <<chanVars, tgtVars, histVars, txVars, extVars>>

----------------------------------------------------------------------------
\* Helpers

\* The contexts of the target: the main program and a preempting interrupt.
Contexts == {"main", "irq"}

\* The print machinery before any use.
PrintIdle ==
    /\ cs_ptr = "null" /\ term_init = FALSE /\ owner = "none"
    /\ p_pc = [c \in Contexts |-> "idle"]
    /\ p_num = [c \in Contexts |-> 0]
    /\ p_cur = [c \in Contexts |-> 0]
    /\ p_failed = [c \in Contexts |-> FALSE]
    /\ p_bytes = [c \in Contexts |-> <<>>]
    /\ p_buf = [c \in Contexts |-> <<>>]

\* The control block is not modelled as a whole (rtt_init! has returned).
InitIdle ==
    /\ decl = [up |-> <<>>, down |-> <<>>]
    /\ i_pc = "done" /\ i_next = 0
    /\ id = <<>> /\ max_up = 0 /\ max_down = 0
    /\ ups = <<>> /\ downs = <<>>
    /\ scan = "none"

\* No second channel is modelled.
TwoIdle ==
    /\ m_ch = <<>> /\ m_mem = <<>> /\ m_ctx = <<>>
    /\ m_inflight = <<>> /\ m_fifoOk = <<>> /\ m_produced = <<>>

\* The parts of the state that the channel specifications leave out.
ExtIdle == PrintIdle /\ InitIdle /\ TwoIdle /\ h_term = 0 /\ last_set = -1 /\ abandoned = <<>>

min(a, b) == IF a < b THEN a ELSE b

Bytes(from, n) == [i \in 1..n |-> from + i]

Zeros(n) == [i \in 1..n |-> 0]

\* Faulty variant: the slice is not advanced past the bytes already copied.
Drop_none(s, n) == s

Drop(s, n) == SubSeq(s, n + 1, Len(s))

InRange(w, r) == w < size /\ r < size

\* The n bytes of the ring starting at index `from`, wrapping at size.
RingContent(b, from, n) == [i \in 1..n |-> b[(from + i - 1) % size]]

Load(b, i) == IF i \in DOMAIN b THEN b[i] ELSE 255

Store(b, i, v) == IF i \in DOMAIN b THEN [b EXCEPT ![i] = v] ELSE b

IsPrefix(a, b) == Len(a) <= Len(b) /\ SubSeq(b, 1, Len(a)) = a

\* The consumer takes `bytes`: they must be the oldest bytes in flight.
Take(bytes) ==
    /\ fifoOk' = (fifoOk /\ IsPrefix(bytes, inflight))
    /\ inflight' = SubSeq(inflight, Len(bytes) + 1, Len(inflight))

----------------------------------------------------------------------------
\* src/src/rtt.rs

\* Faulty variant: always reads up to the end of the buffer.
readable_contiguous_toEnd(w, r) == size - r

readable_contiguous(w, r) == IF r > w THEN size - r ELSE w - r

\* Faulty variant: the reserved slot is forgotten when read is 0.
writable_contiguous_nogap(w, r) == IF r > w THEN r - w - 1 ELSE size - w

\* Faulty variant: a slot is reserved at the end of the buffer also when read is not 0.
writable_contiguous_short(w, r) == IF r > w THEN r - w - 1 ELSE size - w - 1

writable_contiguous(w, r) ==
    IF r > w THEN r - w - 1
    ELSE IF r = 0 THEN size - w - 1
    ELSE size - w

\* Free bytes of an up-channel whose indices are w and r (one slot reserved).
FreeBytes(w, r) == (r - w - 1) % size

\* RttChannel::write / RttChannel::read are called with a slice of L bytes.
CallWrite ==
    /\ pc = "idle" /\ dir = "up"
    /\ \E L \in 0..MaxLen :
        /\ produced + L <= MaxBytes
        /\ buf' = Bytes(produced, L)
        /\ produced' = produced + L
        /\ len0' = L
    /\ op' = "write" /\ pc' = "rp_write"
    /\ total' = 0 /\ count' = 0 /\ ci' = 0
    /\ tainted' = FALSE /\ sawCorrupt' = FALSE
    /\ UNCHANGED txVars
    /\ UNCHANGED <<chanVars, l_write, l_read, ret, inflight, fifoOk, corrupted, w0, free0, oob, ncorrupt, pub0>>
    /\ UNCHANGED extVars

CallRead ==
    /\ pc = "idle" /\ dir = "down"
    /\ \E L \in 0..MaxLen :
        /\ buf' = Zeros(L)
        /\ len0' = L
    /\ op' = "read" /\ pc' = "rp_write"
    /\ total' = 0 /\ count' = 0 /\ ci' = 0
    /\ tainted' = FALSE /\ sawCorrupt' = FALSE
    /\ UNCHANGED txVars
    /\ UNCHANGED <<chanVars, l_write, l_read, ret, produced, inflight, fifoOk, corrupted, w0, free0, oob, ncorrupt, pub0>>
    /\ UNCHANGED extVars

\* read_pointers: let write = self.write.get();
RpLoadWrite ==
    /\ pc = "rp_write"
    /\ l_write' = write
    /\ pc' = "rp_read"
    /\ pub0' = Len(inflight)
    /\ UNCHANGED txVars
    /\ UNCHANGED <<chanVars, op, l_read, buf, total, count, ci, ret,
                   produced, inflight, fifoOk, corrupted, tainted, sawCorrupt, len0, w0, free0, oob,
                   ncorrupt>>
    /\ UNCHANGED extVars

\* read_pointers: let read = self.read.get();
RpLoadRead ==
    /\ pc = "rp_read"
    /\ l_read' = read
    /\ pc' = "rp_check"
    /\ UNCHANGED txVars
    /\ UNCHANGED <<chanVars, op, l_write, buf, total, count, ci, ret, histVars>>
    /\ UNCHANGED extVars

\* read_pointers: the range check, and self.write.set(0) when it fails.
\* Faulty variant: only write is checked.
RpCorrupt_writeOnly(w, r) == w >= size

RpCorrupt(w, r) == w >= size \/ r >= size

RpCheck ==
    /\ pc = "rp_check"
    /\ IF RpCorrupt(l_write, l_read)
       THEN /\ write' = 0
            /\ pc' = "rp_reset"
            /\ sawCorrupt' = TRUE
            /\ UNCHANGED <<w0, free0>>
       ELSE /\ pc' = "loop"
            /\ w0' = l_write
            /\ free0' = FreeBytes(l_write, l_read)
            /\ UNCHANGED <<write, sawCorrupt>>
    /\ UNCHANGED txVars
    /\ UNCHANGED <<dir, size, buffer, read, op, l_write, l_read, buf, total, count, ci, ret,
                   produced, inflight, fifoOk, corrupted, tainted, len0, oob, ncorrupt, pub0>>
    /\ UNCHANGED extVars

\* Faulty variant: read_pointers resets the indices and returns the values it loaded.
RpReset_keepLocals ==
    /\ pc = "rp_reset"
    /\ read' = 0
    /\ pc' = "loop"
    /\ w0' = 0 /\ free0' = FreeBytes(0, 0)
    /\ IF corrupted
       THEN inflight' = <<>> /\ fifoOk' = TRUE /\ pub0' = 0
       ELSE UNCHANGED <<inflight, fifoOk, pub0>>
    /\ corrupted' = (corrupted /\ write >= size)
    /\ UNCHANGED txVars
    /\ UNCHANGED <<dir, size, buffer, write, op, l_write, l_read, buf, total, count, ci, ret,
                   produced, tainted, sawCorrupt, len0, oob, ncorrupt>>
    /\ UNCHANGED extVars

\* read_pointers: self.read.set(0); return (0, 0);
RpReset ==
    /\ pc = "rp_reset"
    /\ read' = 0
    /\ l_write' = 0 /\ l_read' = 0
    /\ pc' = "loop"
    /\ w0' = 0 /\ free0' = FreeBytes(0, 0)
    \* after a store by the host the pending data is lost: the histories restart
    \* from the empty buffer
    /\ IF corrupted
       THEN inflight' = <<>> /\ fifoOk' = TRUE /\ pub0' = 0
       ELSE UNCHANGED <<inflight, fifoOk, pub0>>
    /\ corrupted' = (corrupted /\ write >= size)
    /\ UNCHANGED txVars
    /\ UNCHANGED <<dir, size, buffer, write, op, buf, total, count, ci, ret,
                   produced, tainted, sawCorrupt, len0, oob, ncorrupt>>
    /\ UNCHANGED extVars

\* Faulty variant: count is computed from the peer's index as it is now, not
\* from the value that read_pointers returned.
LoopCount_live ==
    IF op = "write"
    THEN min(writable_contiguous(l_write, read), Len(buf))
    ELSE min(readable_contiguous(write, l_read), Len(buf))

\* The head of the while loop: count, and the break when it is 0.
LoopCount ==
    IF op = "write"
    THEN min(writable_contiguous(l_write, l_read), Len(buf))
    ELSE min(readable_contiguous(l_write, l_read), Len(buf))

LoopHead ==
    /\ pc = "loop"
    /\ IF Len(buf) > 0 /\ LoopCount # 0
       THEN /\ count' = LoopCount /\ ci' = 0 /\ pc' = "copy"
       ELSE /\ pc' = "store" /\ UNCHANGED <<count, ci>>
    /\ UNCHANGED txVars
    /\ UNCHANGED <<chanVars, op, l_write, l_read, buf, total, ret, histVars>>
    /\ UNCHANGED extVars

\* Faulty variant: the cursor is not wrapped at the end of the buffer.
Wrap_none(i) == i

\* Wrap around to start.
Wrap(i) == IF i >= size THEN 0 ELSE i

\* Faulty variant: the write index is stored with the first byte of each copy.
WriteCopy_indexFirst ==
    /\ pc = "copy" /\ op = "write"
    /\ buffer' = Store(buffer, l_write + ci, buf[ci + 1])
    /\ write' = Wrap(l_write + count)
    /\ oob' = (oob \/ l_write + ci >= size)
    /\ IF ci + 1 = count
       THEN /\ total' = total + count
            /\ l_write' = Wrap(l_write + count)
            /\ buf' = Drop(buf, count)
            /\ ci' = 0
            /\ pc' = "loop"
       ELSE /\ ci' = ci + 1
            /\ UNCHANGED <<total, l_write, buf, pc>>
    /\ UNCHANGED txVars
    /\ UNCHANGED <<dir, size, read, op, l_read, count, ret,
                   produced, inflight, fifoOk, corrupted, tainted, sawCorrupt, len0, w0, free0,
                   ncorrupt, pub0>>
    /\ UNCHANGED extVars

\* RttChannel::write: ptr::copy_nonoverlapping(buf, buffer + write, count), one
\* byte per step; after the last byte total, write and buf advance.
WriteCopy ==
    /\ pc = "copy" /\ op = "write"
    /\ buffer' = Store(buffer, l_write + ci, buf[ci + 1])
    /\ oob' = (oob \/ l_write + ci >= size)
    /\ IF ci + 1 = count
       THEN /\ total' = total + count
            /\ l_write' = Wrap(l_write + count)
            /\ buf' = Drop(buf, count)
            /\ ci' = 0
            /\ pc' = "loop"
       ELSE /\ ci' = ci + 1
            /\ UNCHANGED <<total, l_write, buf, pc>>
    /\ UNCHANGED txVars
    /\ UNCHANGED <<dir, size, write, read, op, l_read, count, ret,
                   produced, inflight, fifoOk, corrupted, tainted, sawCorrupt, len0, w0, free0, ncorrupt, pub0>>
    /\ UNCHANGED extVars

\* RttChannel::write: self.write.set(write); total
WriteStore ==
    /\ pc = "store" /\ op = "write"
    /\ write' = l_write
    /\ ret' = total
    /\ inflight' = inflight \o Bytes(produced - len0, total)
    /\ pc' = "idle"
    /\ l_write' = 0 /\ l_read' = 0 /\ buf' = <<>> /\ total' = 0 /\ count' = 0 /\ ci' = 0
    /\ UNCHANGED txVars
    /\ UNCHANGED <<dir, size, buffer, read, op,
                   produced, fifoOk, corrupted, tainted, sawCorrupt, len0, w0, free0, oob, ncorrupt, pub0>>
    /\ UNCHANGED extVars

\* RttChannel::read: ptr::copy_nonoverlapping(buffer + read, buf, count), one
\* byte per step; after the last byte total, read and buf advance.
ReadCopy ==
    /\ pc = "copy" /\ op = "read"
    /\ Take(<<Load(buffer, l_read + ci)>>)
    /\ oob' = (oob \/ l_read + ci >= size)
    /\ IF ci + 1 = count
       THEN /\ total' = total + count
            /\ l_read' = Wrap(l_read + count)
            /\ buf' = Drop(buf, count)
            /\ ci' = 0
            /\ pc' = "loop"
       ELSE /\ ci' = ci + 1
            /\ UNCHANGED <<total, l_read, buf, pc>>
    /\ UNCHANGED txVars
    /\ UNCHANGED <<chanVars, op, l_write, count, ret,
                   produced, corrupted, tainted, sawCorrupt, len0, w0, free0, ncorrupt, pub0>>
    /\ UNCHANGED extVars

\* Faulty variant: read stores its cursor to the write index.
ReadStore_toWrite ==
    /\ pc = "store" /\ op = "read"
    /\ write' = l_read
    /\ ret' = total
    /\ pc' = "idle"
    /\ l_write' = 0 /\ l_read' = 0 /\ buf' = <<>> /\ total' = 0 /\ count' = 0 /\ ci' = 0
    /\ UNCHANGED txVars
    /\ UNCHANGED <<dir, size, buffer, read, op, histVars>>
    /\ UNCHANGED extVars

\* RttChannel::read: self.read.set(read); total
ReadStore ==
    /\ pc = "store" /\ op = "read"
    /\ read' = l_read
    /\ ret' = total
    /\ pc' = "idle"
    /\ l_write' = 0 /\ l_read' = 0 /\ buf' = <<>> /\ total' = 0 /\ count' = 0 /\ ci' = 0
    /\ UNCHANGED txVars
    /\ UNCHANGED <<dir, size, buffer, write, op, histVars>>
    /\ UNCHANGED extVars

----------------------------------------------------------------------------
\* The host (debug probe)

\* A well-behaved host drains k of the bytes in [read, write) of an up-channel.
HostDrain ==
    /\ dir = "up" /\ InRange(write, read) /\ ~corrupted
    /\ \E k \in 1..((write - read) % size) :
        /\ Take(RingContent(buffer, read, k))
        /\ read' = (read + k) % size
    /\ UNCHANGED txVars
    /\ UNCHANGED <<dir, size, buffer, write, tgtVars,
                   produced, corrupted, tainted, sawCorrupt, len0, w0, free0, oob, ncorrupt, pub0>>
    /\ UNCHANGED extVars

\* A well-behaved host puts k bytes into the free part of a down-channel.
HostWrite ==
    /\ dir = "down" /\ InRange(write, read) /\ ~corrupted
    /\ \E k \in 1..FreeBytes(write, read) :
        /\ produced + k <= MaxBytes
        /\ buffer' = [i \in 0..(size - 1) |->
                        IF (i - write) % size < k
                        THEN produced + 1 + ((i - write) % size)
                        ELSE buffer[i]]
        /\ write' = (write + k) % size
        /\ inflight' = inflight \o Bytes(produced, k)
        /\ produced' = produced + k
    /\ UNCHANGED txVars
    /\ UNCHANGED <<dir, size, read, tgtVars,
                   fifoOk, corrupted, tainted, sawCorrupt, len0, w0, free0, oob, ncorrupt, pub0>>
    /\ UNCHANGED extVars

\* A misbehaving host stores an out-of-range value into one of the indices.
CorruptVals == {size, size + 91}

HostCorrupt ==
    /\ ncorrupt < MaxCorrupt
    /\ ncorrupt' = ncorrupt + 1
    /\ \E v \in CorruptVals :
        \/ write' = v /\ UNCHANGED read
        \/ read' = v /\ UNCHANGED write
    /\ corrupted' = TRUE
    /\ tainted' = TRUE
    /\ UNCHANGED txVars
    /\ UNCHANGED <<dir, size, buffer, tgtVars,
                   produced, inflight, fifoOk, sawCorrupt, len0, w0, free0, oob, pub0>>
    /\ UNCHANGED extVars

----------------------------------------------------------------------------
\* The channel engine of src/src/rtt.rs against the host.

Init ==
    /\ dir \in {"up", "down"}
    /\ size \in 2..MaxSize
    /\ buffer = [i \in 0..(size - 1) |-> 0]
    /\ write = 0 /\ read = 0
    /\ pc = "idle" /\ op = "none"
    /\ l_write = 0 /\ l_read = 0
    /\ buf = <<>> /\ total = 0 /\ count = 0 /\ ci = 0 /\ ret = 0
    /\ produced = 0 /\ inflight = <<>> /\ fifoOk = TRUE
    /\ corrupted = FALSE /\ tainted = FALSE /\ sawCorrupt = FALSE
    /\ len0 = 0 /\ w0 = 0 /\ free0 = 0 /\ oob = FALSE /\ ncorrupt = 0 /\ pub0 = 0
    /\ flags = 0 /\ handle = "raw" /\ current = 0
    /\ tx_write = 0 /\ tx_failed = FALSE /\ tx_bytes = <<>>
    /\ t_num = 0 /\ t_pre = 0
    /\ ExtIdle

Next ==
    \/ CallWrite
    \/ CallRead
    \/ RpLoadWrite
    \/ RpLoadRead
    \/ RpCheck
    \/ RpReset
    \/ LoopHead
    \/ WriteCopy
    \/ WriteStore
    \/ ReadCopy
    \/ ReadStore
    \/ HostDrain
    \/ HostWrite
    \/ HostCorrupt

Spec == Init /\ [][Next]_vars

----------------------------------------------------------------------------
\* src/src/lib.rs: UpChannel and TerminalChannel over the writer transaction

NoBlockSkip == 0
NoBlockTrim == 1
BlockIfFull == 2

\* const TERMINAL_ID: [u8; 16] = *b"0123456789ABCDEF";
TERMINAL_ID == <<48, 49, 50, 51, 52, 53, 54, 55, 56, 57, 65, 66, 67, 68, 69, 70>>

\* Terminal numbers passed to TerminalChannel::write.
TermNums == {0, 1, 17}

\* The while loop of RttChannel::write run to its end from cursor w against
\* read index r: the buffer, the cursor and the count of bytes copied.
RECURSIVE WriteLoop(_, _, _, _)
WriteLoop(b, w, r, data) ==
    LET c == min(writable_contiguous(w, r), Len(data)) IN
    IF Len(data) = 0 \/ c = 0
    THEN [buffer |-> b, write |-> w, total |-> 0]
    ELSE LET b2 == [i \in DOMAIN b |->
                      IF i >= w /\ i < w + c THEN data[i - w + 1] ELSE b[i]]
             rest == WriteLoop(b2, Wrap(w + c), r, Drop(data, c))
         IN [rest EXCEPT !.total = @ + c]

\* RttChannel::mode: flags & 0b11
Mode == flags % 4

\* UpChannel::write(buf) is called with a slice of L bytes.
UpWriteCall ==
    /\ pc = "idle" /\ handle = "up"
    /\ \E L \in 0..MaxLen :
        /\ produced + L <= MaxTxBytes
        /\ buf' = Bytes(produced, L)
        /\ produced' = produced + L
        /\ len0' = L
    /\ op' = "upwrite" /\ pc' = "tx_open"
    /\ UNCHANGED <<chanVars, l_write, l_read, total, count, ci, ret, inflight, fifoOk, corrupted,
                   tainted, sawCorrupt, w0, free0, oob, ncorrupt, pub0, txVars>>
    /\ UNCHANGED extVars

\* fmt::Write for UpChannel: write_fmt(args) is called; one writer takes every
\* slice the formatter produces.
FmtCall ==
    /\ pc = "idle" /\ handle = "up"
    /\ op' = "fmt" /\ pc' = "tx_open"
    /\ buf' = <<>> /\ len0' = 0
    /\ UNCHANGED <<chanVars, l_write, l_read, total, count, ci, ret, produced, inflight, fifoOk,
                   corrupted, tainted, sawCorrupt, w0, free0, oob, ncorrupt, pub0, txVars>>
    /\ UNCHANGED extVars

\* RttWriter as fmt::Write: write_str(s) with the next slice of the formatter.
FmtWriteStr ==
    /\ pc = "f_body"
    /\ \E L \in 1..MaxLen :
        /\ produced + L <= MaxTxBytes
        /\ buf' = Bytes(produced, L)
        /\ produced' = produced + L
        /\ len0' = len0 + L
    /\ pc' = "f_pay"
    /\ UNCHANGED <<chanVars, op, l_write, l_read, total, count, ci, ret, inflight, fifoOk,
                   corrupted, tainted, sawCorrupt, w0, free0, oob, ncorrupt, pub0, txVars>>
    /\ UNCHANGED extVars

\* UpChannel::into_terminal: TerminalChannel::new(self), current: 0
IntoTerminal ==
    /\ pc = "idle" /\ handle = "up"
    /\ handle' = "terminal"
    /\ current' = 0
    /\ op' = "none" /\ ret' = 0
    /\ len0' = 0 /\ w0' = 0 /\ free0' = 0 /\ tx_failed' = FALSE
    /\ UNCHANGED <<chanVars, pc, l_write, l_read, buf, total, count, ci,
                   produced, inflight, fifoOk, corrupted, tainted, sawCorrupt, oob, ncorrupt,
                   pub0, flags, tx_write, tx_bytes, t_num, t_pre>>
    /\ UNCHANGED extVars

\* TerminalChannel::write(number) is called.
TermCall ==
    /\ pc = "idle" /\ handle = "terminal"
    /\ \E n \in TermNums :
        /\ n # current => produced + 2 <= MaxTxBytes
        /\ t_num' = n
    /\ t_pre' = current
    /\ op' = "term" /\ pc' = "tx_open"
    /\ buf' = <<>> /\ len0' = 0
    /\ UNCHANGED <<chanVars, l_write, l_read, total, count, ci, ret, produced, inflight, fifoOk,
                   corrupted, tainted, sawCorrupt, w0, free0, oob, ncorrupt, pub0,
                   flags, handle, current, tx_write, tx_failed, tx_bytes>>
    /\ UNCHANGED extVars

\* self.channel().writer(): the transaction takes the write index as its cursor.
TxOpen ==
    /\ pc = "tx_open"
    /\ tx_write' = write
    /\ tx_failed' = FALSE
    /\ tx_bytes' = <<>>
    /\ total' = 0
    /\ w0' = write
    /\ pc' = CASE op = "upwrite" -> "tx_append"
                [] op = "fmt" -> "f_body"
                [] OTHER -> "t_switch"
    /\ UNCHANGED <<chanVars, op, l_write, l_read, buf, count, ci, ret, produced, inflight, fifoOk,
                   corrupted, tainted, sawCorrupt, len0, free0, oob, ncorrupt, pub0,
                   flags, handle, current, t_num, t_pre>>
    /\ UNCHANGED extVars

\* TerminalChannel::write: if number != self.current, the escape is to be written.
TermSwitch ==
    /\ pc = "t_switch"
    /\ IF t_num # current
       THEN /\ buf' = <<255, TERMINAL_ID[(t_num % 16) + 1]>>
            /\ produced' = produced + 2
            /\ pc' = "t_esc"
       ELSE /\ pc' = "t_body"
            /\ UNCHANGED <<buf, produced>>
    /\ UNCHANGED <<chanVars, op, l_write, l_read, total, count, ci, ret,
                   inflight, fifoOk, corrupted, tainted, sawCorrupt, len0, w0, free0, oob,
                   ncorrupt, pub0, txVars>>
    /\ UNCHANGED extVars

\* Faulty variant: the escape is written with the mode of the channel.
AppendMode_own == Mode

\* Faulty variant: the mode forced for the escape stays in force for the
\* payload of the same terminal write.
AppendMode_sticky ==
    IF pc \in {"t_esc", "t_pay"} /\ Mode = NoBlockTrim THEN NoBlockSkip ELSE Mode

\* The mode of the append in progress: the terminal escape must be inflight in
\* full, so NoBlockTrim is replaced by NoBlockSkip for it.
AppendMode ==
    IF pc = "t_esc" /\ Mode = NoBlockTrim THEN NoBlockSkip ELSE Mode

\* Where the target goes on once the append in progress has returned.
AfterAppend ==
    CASE pc = "tx_append" -> "tx_commit"
      [] pc = "f_pay" -> "f_body"
      [] pc = "t_esc" -> "t_setcur"
      [] OTHER -> "t_body"

\* RttWriter::write / write_with_mode: one attempt to copy the slice at the
\* cursor, against the live read index.
TxAppend ==
    /\ pc \in {"tx_append", "t_esc", "t_pay", "f_pay"}
    /\ LET r == WriteLoop(buffer, tx_write, read, buf) IN
         IF tx_failed
         THEN \* an earlier slice did not fit: the append is a no-op
              /\ buf' = <<>> /\ pc' = AfterAppend
              /\ UNCHANGED <<buffer, tx_write, tx_failed, tx_bytes, total, free0>>
         ELSE /\ free0' = FreeBytes(tx_write, read)
              /\ CASE AppendMode = NoBlockSkip ->
                        IF r.total = Len(buf)
                        THEN /\ buffer' = r.buffer /\ tx_write' = r.write
                             /\ tx_bytes' = tx_bytes \o buf
                             /\ total' = total + r.total
                             /\ buf' = <<>> /\ pc' = AfterAppend
                             /\ UNCHANGED tx_failed
                        ELSE /\ tx_failed' = TRUE
                             /\ buf' = <<>> /\ pc' = AfterAppend
                             /\ UNCHANGED <<buffer, tx_write, tx_bytes, total>>
                   [] AppendMode = NoBlockTrim ->
                        /\ buffer' = r.buffer /\ tx_write' = r.write
                        /\ tx_bytes' = tx_bytes \o SubSeq(buf, 1, r.total)
                        /\ total' = total + r.total
                        /\ buf' = <<>> /\ pc' = AfterAppend
                        /\ UNCHANGED tx_failed
                   [] OTHER ->
                        \* BlockIfFull: spin until the rest of the slice is written
                        /\ buffer' = r.buffer /\ tx_write' = r.write
                        /\ tx_bytes' = tx_bytes \o SubSeq(buf, 1, r.total)
                        /\ total' = total + r.total
                        /\ buf' = Drop(buf, r.total)
                        /\ pc' = IF r.total = Len(buf) THEN AfterAppend ELSE pc
                        /\ UNCHANGED tx_failed
    /\ UNCHANGED <<dir, size, write, read, op, l_write, l_read, count, ci, ret,
                   produced, inflight, fifoOk, corrupted, tainted, sawCorrupt, len0, w0, oob,
                   ncorrupt, pub0, flags, handle, current, t_num, t_pre>>
    /\ UNCHANGED extVars

\* TerminalChannel::write: self.current = number;
TermSetCurrent ==
    /\ pc = "t_setcur"
    /\ current' = t_num
    /\ pc' = "t_body"
    /\ UNCHANGED <<chanVars, op, l_write, l_read, buf, total, count, ci, ret, histVars,
                   flags, handle, tx_write, tx_failed, tx_bytes, t_num, t_pre>>
    /\ UNCHANGED extVars

\* TerminalWriter::write_str(s): the payload slice is to be written.
TermWriteStr ==
    /\ pc = "t_body"
    /\ \E L \in 1..MaxLen :
        /\ produced + L <= MaxTxBytes
        /\ buf' = Bytes(produced, L)
        /\ produced' = produced + L
        /\ len0' = len0 + L
    /\ pc' = "t_pay"
    /\ UNCHANGED <<chanVars, op, l_write, l_read, total, count, ci, ret, inflight, fifoOk,
                   corrupted, tainted, sawCorrupt, w0, free0, oob, ncorrupt, pub0, txVars>>
    /\ UNCHANGED extVars

\* The commit of the transaction: the cursor is stored to write, unless failed.
\* The writer is consumed by it.
Commit ==
    /\ IF tx_failed
       THEN UNCHANGED <<write, inflight>>
       ELSE write' = tx_write /\ inflight' = inflight \o tx_bytes
    /\ tx_write' = 0 /\ tx_bytes' = <<>> /\ total' = 0

\* The terminal a host selects when it reads the escape 0xFF, d.
TerminalOf(d) == CHOOSE n \in 0..15 : TERMINAL_ID[n + 1] = d

\* The terminal the host is on after it has read the published bytes `pub`,
\* having been on terminal h before them: that of the last escape in pub.
RECURSIVE HostTerminal(_, _)
HostTerminal(h, pub) ==
    IF Len(pub) < 2 THEN h
    ELSE IF pub[1] = 255 THEN HostTerminal(TerminalOf(pub[2]), Drop(pub, 2))
    ELSE HostTerminal(h, Drop(pub, 1))

\* Drop for TerminalWriter, then the drop of its writer (the commit).
TermDrop ==
    /\ pc = "t_body"
    /\ current' = IF ~tx_failed THEN t_num ELSE current
    /\ Commit
    /\ h_term' = IF tx_failed THEN h_term ELSE HostTerminal(h_term, tx_bytes)
    /\ pc' = "idle"
    /\ tx_failed' = FALSE
    /\ t_num' = 0 /\ t_pre' = 0 /\ len0' = 0 /\ w0' = 0 /\ free0' = 0
    /\ UNCHANGED <<dir, size, buffer, read, op, l_write, l_read, buf, count, ci, ret,
                   produced, fifoOk, corrupted, tainted, sawCorrupt, oob,
                   ncorrupt, pub0, flags, handle>>
    /\ UNCHANGED <<printVars, initVars, twoVars, modeVars, panicVars>>

\* Faulty variant: a writer that goes out of scope is abandoned.
FmtDrop_abandon ==
    /\ pc = "f_body"
    /\ tx_write' = 0 /\ tx_bytes' = <<>> /\ total' = 0
    /\ pc' = "idle"
    /\ tx_failed' = FALSE
    /\ len0' = 0 /\ w0' = 0 /\ free0' = 0
    /\ UNCHANGED <<dir, size, buffer, read, write, inflight, op, l_write, l_read, buf, count,
                   ci, ret, produced, fifoOk, corrupted, tainted, sawCorrupt, oob,
                   ncorrupt, pub0, flags, handle, current, t_num, t_pre>>
    /\ UNCHANGED extVars

\* write_fmt returns: the writer is dropped (the commit).
FmtDrop ==
    /\ pc = "f_body"
    /\ Commit
    /\ pc' = "idle"
    /\ tx_failed' = FALSE
    /\ len0' = 0 /\ w0' = 0 /\ free0' = 0
    /\ UNCHANGED <<dir, size, buffer, read, op, l_write, l_read, buf, count, ci, ret,
                   produced, fifoOk, corrupted, tainted, sawCorrupt, oob,
                   ncorrupt, pub0, flags, handle, current, t_num, t_pre>>
    /\ UNCHANGED extVars

\* Faulty variant: the call reports the length of the slice it was given.
TxCommit_consumed ==
    /\ pc = "tx_commit"
    /\ Commit
    /\ ret' = len0
    /\ pc' = "idle"
    /\ UNCHANGED <<dir, size, buffer, read, op, l_write, l_read, buf, count, ci,
                   produced, fifoOk, corrupted, tainted, sawCorrupt, len0, w0, free0, oob,
                   ncorrupt, pub0, flags, handle, current, tx_failed, t_num, t_pre>>
    /\ UNCHANGED extVars

\* UpChannel::write: writer.commit()
TxCommit ==
    /\ pc = "tx_commit"
    /\ Commit
    /\ ret' = total
    /\ pc' = "idle"
    /\ UNCHANGED <<dir, size, buffer, read, op, l_write, l_read, buf, count, ci,
                   produced, fifoOk, corrupted, tainted, sawCorrupt, len0, w0, free0, oob,
                   ncorrupt, pub0, flags, handle, current, tx_failed, t_num, t_pre>>
    /\ UNCHANGED extVars

\* An up-channel of any mode, owned as an UpChannel, against a draining host.
InitTx ==
    /\ dir = "up"
    /\ size \in 2..MaxTxSize
    /\ buffer = [i \in 0..(size - 1) |-> 0]
    /\ write = 0 /\ read = 0
    /\ pc = "idle" /\ op = "none"
    /\ l_write = 0 /\ l_read = 0
    /\ buf = <<>> /\ total = 0 /\ count = 0 /\ ci = 0 /\ ret = 0
    /\ produced = 0 /\ inflight = <<>> /\ fifoOk = TRUE
    /\ corrupted = FALSE /\ tainted = FALSE /\ sawCorrupt = FALSE
    /\ len0 = 0 /\ w0 = 0 /\ free0 = 0 /\ oob = FALSE /\ ncorrupt = 0 /\ pub0 = 0
    /\ flags \in {NoBlockSkip, NoBlockTrim, BlockIfFull}
    /\ handle = "up" /\ current = 0
    /\ tx_write = 0 /\ tx_failed = FALSE /\ tx_bytes = <<>>
    /\ t_num = 0 /\ t_pre = 0
    /\ ExtIdle

TargetTxStep ==
    \/ TxOpen
    \/ TermSwitch
    \/ TxAppend
    \/ TermSetCurrent
    \/ TermDrop
    \/ FmtDrop
    \/ TxCommit

NextTx ==
    \/ UpWriteCall
    \/ FmtCall
    \/ FmtWriteStr
    \/ IntoTerminal
    \/ TermCall
    \/ TermWriteStr
    \/ TargetTxStep
    \/ HostDrain

SpecTx == InitTx /\ [][NextTx]_vars

----------------------------------------------------------------------------
\* src/src/print.rs: the print channel shared by the contexts of the target

\* Terminal numbers passed to rprint!(=> n, ...).
PrintNums == {0, 1}

\* Faulty variant: the critical-section function does not disable interrupts.
Masked_never == FALSE

\* cortex_m::interrupt::free: interrupts are disabled while the main program
\* is inside the closure it passed to the critical-section function.
Masked == owner = "main"

\* The context can take a step: the interrupt preempts the main program
\* unless interrupts are disabled; the main program runs when no interrupt
\* handler is active.
Runnable(c) == IF c = "irq" THEN ~Masked ELSE p_pc["irq"] = "idle"

\* What no step of the print machinery touches.
PrintFrame ==
    UNCHANGED <<dir, size, read, tgtVars, fifoOk, corrupted, tainted, sawCorrupt, len0, w0,
                free0, oob, ncorrupt, pub0, flags, tx_write, tx_failed, tx_bytes, t_num, t_pre,
                initVars, twoVars, muxVars, modeVars, panicVars>>

\* set_print_channel_cs: (&*cs)(channel, closure) is called.
SetEnter ==
    /\ Runnable("main") /\ p_pc["main"] = "idle"
    /\ cs_ptr = "null" /\ ~term_init
    /\ owner' = "main"
    /\ p_pc' = [p_pc EXCEPT !["main"] = "set_write"]
    /\ PrintFrame
    /\ UNCHANGED <<buffer, write, produced, inflight, handle, current,
                   cs_ptr, term_init, p_num, p_cur, p_failed, p_bytes, p_buf>>

\* The closure: ptr::write(PRINT_TERMINAL, TerminalChannel::new(channel)).
SetWrite ==
    /\ Runnable("main") /\ p_pc["main"] = "set_write"
    /\ term_init' = TRUE
    /\ handle' = "terminal"
    /\ current' = 0
    /\ p_pc' = [p_pc EXCEPT !["main"] = "set_exit"]
    /\ PrintFrame
    /\ UNCHANGED <<buffer, write, produced, inflight,
                   cs_ptr, owner, p_num, p_cur, p_failed, p_bytes, p_buf>>

\* The critical-section function returns.
SetExit ==
    /\ Runnable("main") /\ p_pc["main"] = "set_exit"
    /\ owner' = "none"
    /\ p_pc' = [p_pc EXCEPT !["main"] = "set_store"]
    /\ PrintFrame
    /\ UNCHANGED <<buffer, write, produced, inflight, handle, current,
                   cs_ptr, term_init, p_num, p_cur, p_failed, p_bytes, p_buf>>

\* CRITICAL_SECTION.store(cs, SeqCst)
SetStore ==
    /\ Runnable("main") /\ p_pc["main"] = "set_store"
    /\ cs_ptr' = "set"
    /\ p_pc' = [p_pc EXCEPT !["main"] = "idle"]
    /\ PrintFrame
    /\ UNCHANGED <<buffer, write, produced, inflight, handle, current,
                   term_init, owner, p_num, p_cur, p_failed, p_bytes, p_buf>>

\* print_impl::write_str / write_fmt (number, ...) is called by context c
\* (two bytes of the budget are set aside for the escape of the call).
PrintCall(c) ==
    /\ Runnable(c) /\ p_pc[c] = "idle"
    /\ produced + 2 <= MaxPrintBytes
    /\ produced' = produced + 2
    /\ \E n \in PrintNums : p_num' = [p_num EXCEPT ![c] = n]
    /\ p_pc' = [p_pc EXCEPT ![c] = "load"]
    /\ PrintFrame
    /\ UNCHANGED <<buffer, write, inflight, handle, current,
                   cs_ptr, term_init, owner, p_cur, p_failed, p_bytes, p_buf>>

\* Faulty variant: the critical-section pointer is used without the null check.
PrintLoadCs_nocheck(c) ==
    /\ Runnable(c) /\ p_pc[c] = "load"
    /\ p_pc' = [p_pc EXCEPT ![c] = "enter"]
    /\ PrintFrame
    /\ UNCHANGED <<buffer, write, produced, inflight, handle, current,
                   cs_ptr, term_init, owner, p_num, p_cur, p_failed, p_bytes, p_buf>>

\* with_writer: let cs = CRITICAL_SECTION.load(SeqCst); if !cs.is_null() { ... }
PrintLoadCs(c) ==
    /\ Runnable(c) /\ p_pc[c] = "load"
    /\ p_pc' = [p_pc EXCEPT ![c] = IF cs_ptr = "null" THEN "idle" ELSE "enter"]
    /\ PrintFrame
    /\ UNCHANGED <<buffer, write, produced, inflight, handle, current,
                   cs_ptr, term_init, owner, p_num, p_cur, p_failed, p_bytes, p_buf>>

\* with_writer: (&*cs)(args, closure): the closure runs in the critical section.
PrintEnter(c) ==
    /\ Runnable(c) /\ p_pc[c] = "enter"
    /\ owner' = c
    /\ p_pc' = [p_pc EXCEPT ![c] = "open"]
    /\ PrintFrame
    /\ UNCHANGED <<buffer, write, produced, inflight, handle, current,
                   cs_ptr, term_init, p_num, p_cur, p_failed, p_bytes, p_buf>>

\* term.write(number): the writer takes the write index as its cursor.
PrintOpen(c) ==
    /\ Runnable(c) /\ p_pc[c] = "open"
    /\ p_cur' = [p_cur EXCEPT ![c] = write]
    /\ p_failed' = [p_failed EXCEPT ![c] = FALSE]
    /\ p_bytes' = [p_bytes EXCEPT ![c] = <<>>]
    /\ p_pc' = [p_pc EXCEPT ![c] = "switch"]
    /\ PrintFrame
    /\ UNCHANGED <<buffer, write, produced, inflight, handle, current,
                   cs_ptr, term_init, owner, p_num, p_buf>>

\* term.write(number): if number != self.current, the escape is to be written.
PrintSwitch(c) ==
    /\ Runnable(c) /\ p_pc[c] = "switch"
    /\ IF p_num[c] # current
       THEN /\ p_buf' = [p_buf EXCEPT ![c] = <<255, TERMINAL_ID[(p_num[c] % 16) + 1]>>]
            /\ p_pc' = [p_pc EXCEPT ![c] = "esc"]
       ELSE /\ p_pc' = [p_pc EXCEPT ![c] = "body"]
            /\ UNCHANGED p_buf
    /\ PrintFrame
    /\ UNCHANGED <<buffer, write, produced, inflight, handle, current,
                   cs_ptr, term_init, owner, p_num, p_cur, p_failed, p_bytes>>

\* RttWriter::write / write_with_mode: one attempt to copy `data` at cursor
\* `cur` against read index r: the buffer, the cursor, the failed flag, the
\* bytes copied and the bytes still to be written (BlockIfFull only).
AppendResult(mode, b, cur, r, failed, data) ==
    LET wl == WriteLoop(b, cur, r, data)
        none == [buffer |-> b, cursor |-> cur, failed |-> TRUE, copied |-> <<>>,
                 rest |-> <<>>]
    IN  IF failed THEN none
        ELSE CASE mode = NoBlockSkip ->
                    IF wl.total = Len(data)
                    THEN [buffer |-> wl.buffer, cursor |-> wl.write, failed |-> FALSE,
                          copied |-> data, rest |-> <<>>]
                    ELSE none
               [] mode = NoBlockTrim ->
                    [buffer |-> wl.buffer, cursor |-> wl.write, failed |-> FALSE,
                     copied |-> SubSeq(data, 1, wl.total), rest |-> <<>>]
               [] OTHER ->
                    [buffer |-> wl.buffer, cursor |-> wl.write, failed |-> FALSE,
                     copied |-> SubSeq(data, 1, wl.total), rest |-> Drop(data, wl.total)]

\* The append of the escape (never trimmed) or of a payload slice.
PrintAppend(c) ==
    /\ Runnable(c) /\ p_pc[c] \in {"esc", "pay"}
    /\ LET mode == IF p_pc[c] = "esc" /\ Mode = NoBlockTrim THEN NoBlockSkip ELSE Mode
           r == AppendResult(mode, buffer, p_cur[c], read, p_failed[c], p_buf[c])
       IN /\ buffer' = r.buffer
          /\ p_cur' = [p_cur EXCEPT ![c] = r.cursor]
          /\ p_failed' = [p_failed EXCEPT ![c] = r.failed]
          /\ p_bytes' = [p_bytes EXCEPT ![c] = @ \o r.copied]
          /\ p_buf' = [p_buf EXCEPT ![c] = r.rest]
          /\ p_pc' = [p_pc EXCEPT ![c] =
                        IF r.rest # <<>> THEN @
                        ELSE IF @ = "esc" THEN "setcur" ELSE "body"]
    /\ PrintFrame
    /\ UNCHANGED <<write, produced, inflight, handle, current,
                   cs_ptr, term_init, owner, p_num>>

\* term.write(number): self.current = number;
PrintSetCurrent(c) ==
    /\ Runnable(c) /\ p_pc[c] = "setcur"
    /\ current' = p_num[c]
    /\ p_pc' = [p_pc EXCEPT ![c] = "body"]
    /\ PrintFrame
    /\ UNCHANGED <<buffer, write, produced, inflight, handle,
                   cs_ptr, term_init, owner, p_num, p_cur, p_failed, p_bytes, p_buf>>

\* The closure f: w.write_str(s) with the next slice of the message.
PrintWriteStr(c) ==
    /\ Runnable(c) /\ p_pc[c] = "body"
    /\ \E L \in 1..MaxLen :
        /\ produced + L <= MaxPrintBytes
        /\ p_buf' = [p_buf EXCEPT ![c] = Bytes(produced, L)]
        /\ produced' = produced + L
    /\ p_pc' = [p_pc EXCEPT ![c] = "pay"]
    /\ PrintFrame
    /\ UNCHANGED <<buffer, write, inflight, handle, current,
                   cs_ptr, term_init, owner, p_num, p_cur, p_failed, p_bytes>>

\* The closure f returns: Drop for TerminalWriter, then the commit of its writer.
PrintDrop(c) ==
    /\ Runnable(c) /\ p_pc[c] = "body"
    /\ current' = IF ~p_failed[c] THEN p_num[c] ELSE current
    /\ IF p_failed[c]
       THEN UNCHANGED <<write, inflight>>
       ELSE write' = p_cur[c] /\ inflight' = inflight \o p_bytes[c]
    /\ p_cur' = [p_cur EXCEPT ![c] = 0]
    /\ p_failed' = [p_failed EXCEPT ![c] = FALSE]
    /\ p_bytes' = [p_bytes EXCEPT ![c] = <<>>]
    /\ p_num' = [p_num EXCEPT ![c] = 0]
    /\ p_pc' = [p_pc EXCEPT ![c] = "exit"]
    /\ PrintFrame
    /\ UNCHANGED <<buffer, produced, handle, cs_ptr, term_init, owner, p_buf>>

\* The critical-section function returns.
PrintExit(c) ==
    /\ Runnable(c) /\ p_pc[c] = "exit"
    /\ owner' = "none"
    /\ p_pc' = [p_pc EXCEPT ![c] = "idle"]
    /\ PrintFrame
    /\ UNCHANGED <<buffer, write, produced, inflight, handle, current,
                   cs_ptr, term_init, p_num, p_cur, p_failed, p_bytes, p_buf>>

\* An up-channel of any mode, handed to set_print_channel by the main program,
\* with an interrupt that prints too, against a draining host.
InitPrint ==
    /\ dir = "up"
    /\ size \in 2..MaxPrintSize
    /\ buffer = [i \in 0..(size - 1) |-> 0]
    /\ write = 0 /\ read = 0
    /\ pc = "idle" /\ op = "none"
    /\ l_write = 0 /\ l_read = 0
    /\ buf = <<>> /\ total = 0 /\ count = 0 /\ ci = 0 /\ ret = 0
    /\ produced = 0 /\ inflight = <<>> /\ fifoOk = TRUE
    /\ corrupted = FALSE /\ tainted = FALSE /\ sawCorrupt = FALSE
    /\ len0 = 0 /\ w0 = 0 /\ free0 = 0 /\ oob = FALSE /\ ncorrupt = 0 /\ pub0 = 0
    /\ flags \in {NoBlockSkip, NoBlockTrim, BlockIfFull}
    /\ handle = "up" /\ current = 0
    /\ tx_write = 0 /\ tx_failed = FALSE /\ tx_bytes = <<>>
    /\ t_num = 0 /\ t_pre = 0
    /\ PrintIdle /\ InitIdle /\ TwoIdle /\ h_term = 0 /\ last_set = -1 /\ abandoned = <<>>

PrintStep(c) ==
    \/ PrintCall(c)
    \/ PrintLoadCs(c)
    \/ PrintEnter(c)
    \/ PrintOpen(c)
    \/ PrintSwitch(c)
    \/ PrintAppend(c)
    \/ PrintSetCurrent(c)
    \/ PrintWriteStr(c)
    \/ PrintDrop(c)
    \/ PrintExit(c)

NextPrint ==
    \/ SetEnter
    \/ SetWrite
    \/ SetExit
    \/ SetStore
    \/ \E c \in Contexts : PrintStep(c)
    \/ HostDrain

SpecPrint == InitPrint /\ [][NextPrint]_vars

----------------------------------------------------------------------------
\* src/src/init.rs and RttHeader::init of src/src/rtt.rs: rtt_init!

\* b"SEGGER R_" and b"TT\0\0\0\0\0\0", the two parts of the ID
IdPart1 == <<83, 69, 71, 71, 69, 82, 32, 82, 95>>
IdPart2 == <<84, 84, 0, 0, 0, 0, 0, 0>>

\* "SEGGER RTT" padded with zeros to 16 bytes: what the host scans for.
Signature == <<83, 69, 71, 71, 69, 82, 32, 82, 84, 84, 0, 0, 0, 0, 0, 0>>

\* ptr::copy_nonoverlapping(src, dst.offset(off), Len(src))
CopyAt(dst, off, src) ==
    [i \in 1..Len(dst) |-> IF i > off /\ i <= off + Len(src) THEN src[i - off] ELSE dst[i]]

\* Buffer sizes and modes a declaration may give.
DeclSizes == {2, 3}

DeclChannel ==
    [size : DeclSizes, given : {TRUE}, mode : {NoBlockSkip, NoBlockTrim, BlockIfFull}]
        \cup [size : DeclSizes, given : {FALSE}, mode : {0}]

\* Contents of memory that has not been written: zero or leftover bytes.
Stale == {0, 170}

\* rtt_init_channels: let mut mode = ChannelMode::NoBlockTrim;
DefaultMode == NoBlockTrim

\* A channel descriptor as RttChannel::init(name, mode, buffer) leaves it.
Descriptor(d) ==
    [buffer |-> TRUE, size |-> d.size,
     flags |-> IF d.given THEN d.mode ELSE DefaultMode]

ZeroDescriptor == [buffer |-> FALSE, size |-> 0, flags |-> 0]

InitFrame == UNCHANGED <<chanVars, tgtVars, histVars, txVars, printVars, twoVars, muxVars, modeVars, panicVars>>

\* ptr::write_bytes(_SEGGER_RTT.as_mut_ptr(), 0, 1)
InitZero ==
    /\ i_pc = "start"
    /\ id' = [i \in 1..16 |-> 0]
    /\ max_up' = 0 /\ max_down' = 0
    /\ ups' = [k \in 1..Len(decl.up) |-> ZeroDescriptor]
    /\ downs' = [k \in 1..Len(decl.down) |-> ZeroDescriptor]
    /\ i_pc' = "id1"
    /\ InitFrame
    /\ UNCHANGED <<decl, i_next, scan>>

\* RttHeader::init: copy_nonoverlapping(b"SEGGER R_", self.id, 9)
InitId1 ==
    /\ i_pc = "id1"
    /\ id' = CopyAt(id, 0, IdPart1)
    /\ i_pc' = "id2"
    /\ InitFrame
    /\ UNCHANGED <<decl, i_next, max_up, max_down, ups, downs, scan>>

\* RttHeader::init: copy_nonoverlapping(b"TT\0\0\0\0\0\0", self.id.offset(8), 8)
InitId2 ==
    /\ i_pc = "id2"
    /\ id' = CopyAt(id, 8, IdPart2)
    /\ i_pc' = "max_up"
    /\ InitFrame
    /\ UNCHANGED <<decl, i_next, max_up, max_down, ups, downs, scan>>

\* RttHeader::init: self.max_up_channels.set(max_up_channels)
InitMaxUp ==
    /\ i_pc = "max_up"
    /\ max_up' = Len(decl.up)
    /\ i_pc' = "max_down"
    /\ InitFrame
    /\ UNCHANGED <<decl, i_next, id, max_down, ups, downs, scan>>

\* RttHeader::init: self.max_down_channels.set(max_down_channels)
InitMaxDown ==
    /\ i_pc = "max_down"
    /\ max_down' = Len(decl.down)
    /\ i_pc' = "up_chans" /\ i_next' = 0
    /\ InitFrame
    /\ UNCHANGED <<decl, id, max_up, ups, downs, scan>>

\* rtt_init_channels!(rtt.up_channels; ...): the next up-channel is initialised.
InitUpChannel ==
    /\ i_pc = "up_chans" /\ i_next < Len(decl.up)
    /\ ups' = [ups EXCEPT ![i_next + 1] = Descriptor(decl.up[i_next + 1])]
    /\ i_next' = i_next + 1
    /\ InitFrame
    /\ UNCHANGED <<decl, i_pc, id, max_up, max_down, downs, scan>>

\* rtt_init_channels!(rtt.up_channels;): the end of the up-channels.
InitUpDone ==
    /\ i_pc = "up_chans" /\ i_next = Len(decl.up)
    /\ i_pc' = "down_chans" /\ i_next' = 0
    /\ InitFrame
    /\ UNCHANGED <<decl, id, max_up, max_down, ups, downs, scan>>

\* rtt_init_channels!(rtt.down_channels; ...): the next down-channel.
InitDownChannel ==
    /\ i_pc = "down_chans" /\ i_next < Len(decl.down)
    /\ downs' = [downs EXCEPT ![i_next + 1] = Descriptor(decl.down[i_next + 1])]
    /\ i_next' = i_next + 1
    /\ InitFrame
    /\ UNCHANGED <<decl, i_pc, id, max_up, max_down, ups, scan>>

\* The end of the down-channels: the Channels struct is returned.
InitDownDone ==
    /\ i_pc = "down_chans" /\ i_next = Len(decl.down)
    /\ i_pc' = "done" /\ i_next' = 0
    /\ InitFrame
    /\ UNCHANGED <<decl, id, max_up, max_down, ups, downs, scan>>

\* Every field of the control block holds what the declaration asks for.
Populated ==
    /\ max_up = Len(decl.up) /\ max_down = Len(decl.down)
    /\ \A k \in 1..Len(decl.up) : ups[k] = Descriptor(decl.up[k])
    /\ \A k \in 1..Len(decl.down) : downs[k] = Descriptor(decl.down[k])

\* The host scans target memory for the signature and, when it finds it,
\* reads the control block.
HostScan ==
    /\ scan' = IF id # Signature THEN "notfound"
               ELSE IF Populated THEN "found" ELSE "unpopulated"
    /\ InitFrame
    /\ UNCHANGED <<decl, i_pc, i_next, id, max_up, max_down, ups, downs>>

\* rtt_init! with one or more up-channels and any down-channels, over static
\* memory that has not been written.
InitInit ==
    /\ dir = "up" /\ size = 2
    /\ buffer = [i \in 0..1 |-> 0]
    /\ write = 0 /\ read = 0
    /\ pc = "idle" /\ op = "none"
    /\ l_write = 0 /\ l_read = 0
    /\ buf = <<>> /\ total = 0 /\ count = 0 /\ ci = 0 /\ ret = 0
    /\ produced = 0 /\ inflight = <<>> /\ fifoOk = TRUE
    /\ corrupted = FALSE /\ tainted = FALSE /\ sawCorrupt = FALSE
    /\ len0 = 0 /\ w0 = 0 /\ free0 = 0 /\ oob = FALSE /\ ncorrupt = 0 /\ pub0 = 0
    /\ flags = 0 /\ handle = "raw" /\ current = 0
    /\ tx_write = 0 /\ tx_failed = FALSE /\ tx_bytes = <<>>
    /\ t_num = 0 /\ t_pre = 0
    /\ PrintIdle /\ TwoIdle /\ h_term = 0 /\ last_set = -1 /\ abandoned = <<>>
    /\ \E n \in 1..MaxUp, m \in 0..MaxDown :
         decl \in [up : [1..n -> DeclChannel], down : [1..m -> DeclChannel]]
    /\ i_pc = "start" /\ i_next = 0
    /\ \E g \in Stale :
         /\ id = [i \in 1..16 |-> g]
         /\ max_up = g /\ max_down = g
         /\ ups = [k \in 1..Len(decl.up) |-> [buffer |-> g # 0, size |-> g, flags |-> g]]
         /\ downs = [k \in 1..Len(decl.down) |-> [buffer |-> g # 0, size |-> g, flags |-> g]]
    /\ scan = "none"

NextInit ==
    \/ InitZero
    \/ InitId1
    \/ InitId2
    \/ InitMaxUp
    \/ InitMaxDown
    \/ InitUpChannel
    \/ InitUpDone
    \/ InitDownChannel
    \/ InitDownDone
    \/ HostScan

SpecInit == InitInit /\ [][NextInit]_vars

----------------------------------------------------------------------------
\* Properties of the channel engine

\* Published bytes the consumer has not taken yet.
InFlight == Len(inflight)

TargetStep ==
    \/ RpLoadWrite \/ RpLoadRead \/ RpCheck \/ RpReset \/ LoopHead
    \/ WriteCopy \/ WriteStore \/ ReadCopy \/ ReadStore

\* C1: whenever the target is between operations and the host has stored no
\* out-of-range value since the last operation began, 0 <= write < size and
\* 0 <= read < size, also when such a value had been stored before it began.
C1_IndexBounds ==
    (pc = "idle" /\ ~tainted) =>
        (0 <= write /\ write < size /\ 0 <= read /\ read < size)

C1_Witness ==
    /\ pc = "idle" /\ ~tainted /\ sawCorrupt
    /\ op = "write" /\ ret > 0 /\ read > 0

\* C2: on an up-channel with a well-behaved host, the bytes published and not
\* yet drained number (write - read) mod size, never more than size - 1, and a
\* write that copied a byte is never about to store a write index equal to read.
C2_Capacity ==
    (dir = "up" /\ ~corrupted) =>
        /\ InFlight = (write - read) % size
        /\ InFlight <= size - 1
        /\ (pc = "store" /\ total > 0) => l_write # read

C2_Witness ==
    /\ dir = "up" /\ ~corrupted /\ ncorrupt = 0
    /\ pc = "idle" /\ ret > 0 /\ InFlight = size - 1 /\ write < read

C4_DownFifo ==
    (dir = "down" /\ ~corrupted) =>
        /\ fifoOk
        /\ (op = "read" /\ pc \notin {"idle", "rp_write"}) => total + ci <= pub0
        /\ (op = "read" /\ pc = "idle") => ret <= pub0
        /\ pc = "idle" =>
            /\ InFlight = (write - read) % size
            /\ RingContent(buffer, read, InFlight) = inflight

C4_Witness ==
    /\ dir = "down" /\ ~corrupted /\ ncorrupt = 0
    /\ size = 3 /\ pc = "idle" /\ op = "read" /\ ret = 2 /\ read = 1
    /\ InFlight + ret > pub0 /\ inflight[1] = 5

\* C6: a write of more bytes than were free when it sampled the indices
\* publishes exactly the first free0 bytes of its input: it returns free0,
\* write has advanced by free0 modulo size, and those bytes are in the buffer.
C6_TrimProgress ==
    (dir = "up" /\ pc = "idle" /\ op = "write" /\ ~tainted /\ len0 > free0) =>
        /\ ret = free0
        /\ write = (w0 + free0) % size
        /\ RingContent(buffer, w0, free0) = Bytes(produced - len0, free0)

C6_Witness ==
    /\ dir = "up" /\ pc = "idle" /\ op = "write" /\ ~tainted /\ ~sawCorrupt
    /\ len0 > free0 /\ free0 > 1 /\ w0 + free0 > size

\* C9: an operation that finds an index out of range stores 0 to both indices
\* and goes on from the empty buffer: a write then returns min(|buf|, size - 1)
\* with write equal to that count and read = 0, a read returns 0 with read = 0;
\* and an operation under way always has a next step.
C9_CorruptionRecovery ==
    /\ [](pc # "idle" => ENABLED TargetStep)
    /\ [][(pc = "rp_reset" /\ pc' = "loop") =>
            (read' = 0 /\ l_write' = 0 /\ l_read' = 0 /\ (tainted \/ write' = 0))]_vars
    /\ [][(pc = "store" /\ pc' = "idle" /\ sawCorrupt /\ ~tainted) =>
            /\ read' = 0
            /\ op = "write" =>
                /\ ret' = min(len0, size - 1)
                /\ write' = ret'
                /\ RingContent(buffer', 0, ret') = Bytes(produced - len0, ret')
            /\ op = "read" => (ret' = 0 /\ write' < size)]_vars

C9_Witness ==
    /\ pc = "idle" /\ op = "write" /\ sawCorrupt /\ ~tainted
    /\ size = 3 /\ len0 = 1 /\ ret = 1 /\ write = 1 /\ read = 0

\* Slots of the copy in progress that the target has not stored yet.
PendingSlots == {(l_write + j) % size : j \in ci..(count - 1)}

\* Slots the host takes as holding data: [read, write).
VisibleSlots == {(read + j) % size : j \in 0..(((write - read) % size) - 1)}

----------------------------------------------------------------------------
\* Properties of the writer transaction and the terminal channel

\* C5: in NoBlockSkip mode a write of more bytes than are free publishes
\* nothing: from the append that does not fit to the return of the write, the
\* write index keeps the value it had when the write began, the buffer bytes
\* stay as they were, no byte is added to those the host can see, and the
\* write returns 0.
C5_SkipAtomicity ==
    /\ []((op = "upwrite" /\ pc \in {"tx_append", "tx_commit"}) => write = w0)
    /\ [][(/\ op = "upwrite" /\ Mode = NoBlockSkip
           /\ \/ pc = "tx_append" /\ Len(buf) > FreeBytes(tx_write, read)
              \/ pc = "tx_commit" /\ tx_failed)
          => /\ write' = write
             /\ buffer' = buffer
             /\ Len(inflight') <= Len(inflight)
             /\ pc' = "tx_commit" => tx_failed'
             /\ pc' = "idle" => ret' = 0]_vars

C5_Witness ==
    /\ op = "upwrite" /\ pc = "idle" /\ Mode = NoBlockSkip
    /\ len0 > free0 /\ free0 > 0 /\ tx_failed
    /\ ret = 0 /\ write = w0 /\ inflight # <<>>

\* C7: a BlockIfFull write that still has bytes to write can always go on:
\* either there is room at its cursor, or the host sees bytes in
\* [read, write) that it can drain to make room.
C7_BlockProgress ==
    (op = "upwrite" /\ pc = "tx_append" /\ Mode = BlockIfFull /\ buf # <<>>) =>
        (FreeBytes(tx_write, read) > 0 \/ write # read)

\* C8: when the writer of a call to a terminal other than the current one is
\* dropped, either what the call publishes begins with the escape 0xFF,
\* hex_digit(n), or the call publishes nothing and current is what it was
\* before the call.
C8_TerminalSwitch ==
    [][(pc = "t_body" /\ pc' = "idle" /\ t_num # t_pre) =>
         LET pub == SubSeq(inflight', Len(inflight) + 1, Len(inflight')) IN
           \/ /\ Len(pub) >= 2
              /\ SubSeq(pub, 1, 2) = <<255, TERMINAL_ID[(t_num % 16) + 1]>>
           \/ /\ pub = <<>>
              /\ current' = t_pre]_vars

\* The target is inside a writer transaction (opened, not yet committed).
InTx == pc \in {"tx_append", "tx_commit", "f_body", "f_pay", "t_switch", "t_esc", "t_setcur",
                "t_body", "t_pay"}

\* C11: while a writer transaction is open the write index keeps the value it
\* had when the transaction was opened and no byte is added to those the host
\* can see; the step that ends the transaction either publishes nothing or
\* publishes, by one store of write, all bytes the transaction copied, which
\* lie in the buffer from the old write index on in the order of appending.
C11_CommitAtomicity ==
    /\ [](InTx => write = w0)
    /\ [][InTx =>
            IF pc' = "idle"
            THEN \/ inflight' = inflight /\ write' = write
                 \/ /\ inflight' = inflight \o tx_bytes
                    /\ write' = (write + Len(tx_bytes)) % size
                    /\ RingContent(buffer', write, Len(tx_bytes)) = tx_bytes
                    /\ op = "fmt" =>
                         \A i, j \in 1..Len(tx_bytes) : i < j => tx_bytes[i] < tx_bytes[j]
            ELSE /\ write' = write
                 /\ Len(inflight') <= Len(inflight)]_vars

C11_Witness ==
    /\ op = "fmt" /\ pc = "f_body" /\ Len(tx_bytes) >= 2 /\ len0 > Len(tx_bytes)
    /\ tx_write < write /\ inflight # <<>>

----------------------------------------------------------------------------
\* Properties of the print channel

\* C12: while the critical-section pointer is null no context is inside
\* print's critical section, and nothing has been written to the channel; a
\* print call that loads the null pointer returns at once, leaving the owner
\* of the critical section, the print terminal and the channel as they were.
C12_PrintBeforeSet ==
    /\ [](cs_ptr = "null" =>
            /\ \A c \in Contexts :
                 p_pc[c] \in {"idle", "load", "set_write", "set_exit", "set_store"}
            /\ write = 0 /\ inflight = <<>>
            /\ \A i \in DOMAIN buffer : buffer[i] = 0)
    /\ [][\A c \in Contexts :
            (cs_ptr = "null" /\ p_pc[c] = "load" /\ p_pc'[c] # "load") =>
                /\ p_pc'[c] = "idle"
                /\ UNCHANGED <<owner, term_init, current, handle, chanVars, inflight>>]_vars

C12_Witness ==
    /\ cs_ptr = "null" /\ term_init /\ p_pc["main"] = "set_store"
    /\ p_pc["irq"] = "idle" /\ p_num["irq"] = 1

\* Positions of a print call inside the critical section.
InPrintCs(c) ==
    p_pc[c] \in {"open", "switch", "esc", "setcur", "body", "pay", "exit"}

\* C13: a context that has entered print's critical section and not left it
\* is the only one inside, so at most one writer transaction is open on the
\* print channel; every transaction is published whole behind the bytes
\* published before it, and the bytes the host has not read yet lie in
\* [read, write) in the order of publication.
C13_PrintSerialized ==
    /\ [](/\ \A c \in Contexts : InPrintCs(c) => owner = c
          /\ Cardinality({c \in Contexts : InPrintCs(c)}) <= 1
          /\ fifoOk
          /\ RingContent(buffer, read, Len(inflight)) = inflight
          /\ Len(inflight) = (write - read) % size)
    /\ [][\A c \in Contexts :
            (p_pc[c] = "body" /\ p_pc'[c] = "exit") =>
                \/ inflight' = inflight /\ write' = write
                \/ /\ inflight' = inflight \o p_bytes[c]
                   /\ write' = (write + Len(p_bytes[c])) % size]_vars

C13_Witness ==
    /\ p_pc["main"] = "enter" /\ p_pc["irq"] = "pay" /\ owner = "irq"
    /\ p_bytes["irq"] # <<>> /\ inflight # <<>> /\ current # 0

----------------------------------------------------------------------------
\* Properties of the initialisation

\* C14: whenever the id field holds the complete signature, max_up, max_down
\* and every channel descriptor hold what the declaration asks for, and a
\* host that found the signature has never read an unpopulated control block.
C14_SignatureLast ==
    /\ (id = Signature) => Populated
    /\ scan # "unpopulated"

\* C16: once rtt_init! has returned, every up-channel declared without a mode
\* is in NoBlockSkip mode.
C16_DefaultMode ==
    i_pc = "done" =>
        \A k \in 1..Len(decl.up) : ~decl.up[k].given => ups[k].flags % 4 = NoBlockSkip

----------------------------------------------------------------------------
\* Ownership of the indices

\* C15 as stated: in every step of a target operation, on an up-channel read
\* is left as it is and on a down-channel write is left as it is.
C15_Ownership ==
    [][TargetStep => /\ dir = "up" => read' = read
                     /\ dir = "down" => write' = write]_vars

\* C15, amended: the same in every step of a target operation except the reset
\* of read_pointers, taken when a loaded index is out of range, which stores 0
\* to write and then 0 to read whatever the direction of the channel.
C15_OwnershipButReset ==
    [][TargetStep =>
        IF pc \in {"rp_check", "rp_reset"} /\ RpCorrupt(l_write, l_read)
        THEN IF pc = "rp_check" THEN write' = 0 /\ read' = read
                                ELSE read' = 0 /\ write' = write
        ELSE /\ dir = "up" => read' = read
             /\ dir = "down" => write' = write]_vars

C15_Witness ==
    /\ dir = "down" /\ op = "read" /\ pc = "store"
    /\ l_read # read /\ write # l_read /\ total > 0

----------------------------------------------------------------------------
\* The value UpChannel::write returns

----------------------------------------------------------------------------
\* The operations that do not wait for the host: DownChannel::read on a
\* down-channel, UpChannel::write on an up-channel.

\* A channel behind its handle: an UpChannel of any mode or a DownChannel.
InitNB ==
    /\ \/ dir = "up" /\ handle = "up" /\ flags \in {NoBlockSkip, NoBlockTrim, BlockIfFull}
       \/ dir = "down" /\ handle = "down" /\ flags = NoBlockSkip
    /\ size \in 2..MaxTxSize
    /\ buffer = [i \in 0..(size - 1) |-> 0]
    /\ write = 0 /\ read = 0
    /\ pc = "idle" /\ op = "none"
    /\ l_write = 0 /\ l_read = 0
    /\ buf = <<>> /\ total = 0 /\ count = 0 /\ ci = 0 /\ ret = 0
    /\ produced = 0 /\ inflight = <<>> /\ fifoOk = TRUE
    /\ corrupted = FALSE /\ tainted = FALSE /\ sawCorrupt = FALSE
    /\ len0 = 0 /\ w0 = 0 /\ free0 = 0 /\ oob = FALSE /\ ncorrupt = 0 /\ pub0 = 0
    /\ current = 0
    /\ tx_write = 0 /\ tx_failed = FALSE /\ tx_bytes = <<>>
    /\ t_num = 0 /\ t_pre = 0
    /\ ExtIdle

\* The steps of DownChannel::read (RttChannel::read).
ReadStep ==
    \/ RpLoadWrite \/ RpLoadRead \/ RpCheck \/ RpReset \/ LoopHead
    \/ ReadCopy \/ ReadStore

NextNB ==
    \/ CallRead
    \/ ReadStep
    \/ HostWrite
    \/ dir = "down" /\ HostCorrupt
    \/ UpWriteCall
    \/ TxOpen
    \/ TxAppend
    \/ TxCommit
    \/ HostDrain

SpecNB == InitNB /\ [][NextNB]_vars

\* The number of target steps an operation in progress can still take when it
\* does not wait: four steps of read_pointers, then for each loop iteration
\* the head and one step per byte, then the head that breaks and the store;
\* for UpChannel::write the opening, the append and the commit.
StepsLeft ==
    CASE pc = "idle" -> 0
      [] pc = "rp_write" -> 2 * Len(buf) + 6
      [] pc = "rp_read" -> 2 * Len(buf) + 5
      [] pc = "rp_check" -> 2 * Len(buf) + 4
      [] pc = "rp_reset" -> 2 * Len(buf) + 3
      [] pc = "loop" -> 2 * Len(buf) + 2
      [] pc = "copy" -> 2 * Len(buf) + 1 - ci
      [] pc = "store" -> 1
      [] pc = "tx_open" -> 3
      [] pc = "tx_append" -> 2
      [] pc = "tx_commit" -> 1
      [] OTHER -> 0

\* An operation that must not wait is in progress.
NonBlocking ==
    /\ pc # "idle"
    /\ op = "read" \/ (op = "upwrite" /\ Mode # BlockIfFull)

\* C18: while a down-channel read or an up-channel write in NoBlockSkip or
\* NoBlockTrim mode is in progress, the target has a step to take whatever the
\* host does, at most 2 * |buf| + 6 steps are left, every target step leaves
\* fewer and no host step leaves more; and a read whose loaded indices are
\* equal or whose output slice is empty goes straight to the store and
\* returns 0.
C18_NonBlocking ==
    /\ [](NonBlocking =>
            /\ ENABLED (ReadStep \/ TxOpen \/ TxAppend \/ TxCommit)
            /\ StepsLeft > 0 /\ StepsLeft <= 2 * len0 + 6)
    /\ [][NonBlocking =>
            IF ReadStep \/ TxOpen \/ TxAppend \/ TxCommit
            THEN StepsLeft' < StepsLeft
            ELSE StepsLeft' = StepsLeft /\ pc' = pc]_vars
    /\ [][(op = "read" /\ pc = "loop" /\ total = 0 /\ (l_write = l_read \/ len0 = 0)
           /\ LoopHead) => pc' = "store"]_vars
    /\ [][(op = "read" /\ ReadStore) => ret' = total]_vars

C18_Witness ==
    /\ op = "read" /\ pc = "copy" /\ count > 1 /\ ci = 1
    /\ l_write # write /\ l_read > 0 /\ StepsLeft > 4

----------------------------------------------------------------------------
\* src/panic-rtt-target/src/lib.rs and src/panic-rtt/src/lib.rs: the panic
\* handler, over an application that writes to up-channel 0

PanicFrame == UNCHANGED <<printVars, decl, i_pc, i_next, id, max_up, max_down, ups, downs, scan, twoVars, muxVars, modeVars>>

\* Faulty variant: the panic unwinds the stack of the owner, so the writer of
\* its open transaction is dropped and commits.
PanicCall_unwind ==
    /\ handle = "up"
    /\ pc \in {"idle", "tx_open", "tx_append", "tx_commit"}
    /\ handle' = "panic"
    /\ pc' = "p_conjure"
    /\ abandoned' = tx_bytes
    /\ IF pc \in {"tx_append", "tx_commit"} /\ ~tx_failed
       THEN write' = tx_write /\ inflight' = inflight \o tx_bytes
       ELSE UNCHANGED <<write, inflight>>
    /\ UNCHANGED <<dir, size, buffer, read, op, l_write, l_read, buf, total, count, ci, ret,
                   produced, fifoOk, corrupted, tainted, sawCorrupt, len0, w0, free0, oob,
                   ncorrupt, pub0, flags, current, tx_write, tx_failed, tx_bytes, t_num, t_pre>>
    /\ PanicFrame

\* The program panics: interrupt::disable(), whatever the owner of channel 0
\* was doing; its handle is not used again.
PanicCall ==
    /\ handle = "up"
    /\ pc \in {"idle", "tx_open", "tx_append", "tx_commit"}
    /\ handle' = "panic"
    /\ pc' = "p_conjure"
    /\ abandoned' = tx_bytes
    /\ UNCHANGED <<chanVars, op, l_write, l_read, buf, total, count, ci, ret, histVars,
                   flags, current, tx_write, tx_failed, tx_bytes, t_num, t_pre>>
    /\ PanicFrame

\* Faulty variant: without channel 0 the handler returns to the application.
PanicConjure_return ==
    /\ pc = "p_conjure"
    /\ pc' = IF max_up > 0 THEN "p_setmode" ELSE "idle"
    /\ handle' = IF max_up > 0 THEN handle ELSE "up"
    /\ UNCHANGED <<chanVars, op, l_write, l_read, buf, total, count, ci, ret, histVars,
                   flags, current, tx_write, tx_failed, tx_bytes, t_num, t_pre>>
    /\ PanicFrame /\ UNCHANGED panicVars

\* if let Some(mut channel) = unsafe { UpChannel::conjure(0) }; without
\* channel 0 the handler goes to its final loop.
PanicConjure ==
    /\ pc = "p_conjure"
    /\ pc' = IF max_up > 0 THEN "p_setmode" ELSE "p_halt"
    /\ UNCHANGED <<chanVars, op, l_write, l_read, buf, total, count, ci, ret, histVars, txVars>>
    /\ PanicFrame /\ UNCHANGED panicVars

\* channel.set_mode(ChannelMode::BlockIfFull)
PanicSetMode ==
    /\ pc = "p_setmode"
    /\ flags' = BlockIfFull
    /\ pc' = "p_write"
    /\ UNCHANGED <<chanVars, op, l_write, l_read, buf, total, count, ci, ret, histVars,
                   handle, current, tx_write, tx_failed, tx_bytes, t_num, t_pre>>
    /\ PanicFrame /\ UNCHANGED panicVars

\* writeln!(channel, "{}", info): write_fmt of UpChannel is called.
PanicWrite ==
    /\ pc = "p_write"
    /\ op' = "fmt" /\ pc' = "tx_open"
    /\ buf' = <<>> /\ len0' = 0
    /\ UNCHANGED <<chanVars, l_write, l_read, total, count, ci, ret, produced, inflight, fifoOk,
                   corrupted, tainted, sawCorrupt, w0, free0, oob, ncorrupt, pub0, txVars>>
    /\ PanicFrame /\ UNCHANGED panicVars

\* An application with or without up-channel 0, the channel in any mode.
InitPanic ==
    /\ dir = "up"
    /\ size \in 2..MaxTxSize
    /\ buffer = [i \in 0..(size - 1) |-> 0]
    /\ write = 0 /\ read = 0
    /\ pc = "idle" /\ op = "none"
    /\ l_write = 0 /\ l_read = 0
    /\ buf = <<>> /\ total = 0 /\ count = 0 /\ ci = 0 /\ ret = 0
    /\ produced = 0 /\ inflight = <<>> /\ fifoOk = TRUE
    /\ corrupted = FALSE /\ tainted = FALSE /\ sawCorrupt = FALSE
    /\ len0 = 0 /\ w0 = 0 /\ free0 = 0 /\ oob = FALSE /\ ncorrupt = 0 /\ pub0 = 0
    /\ flags \in {NoBlockSkip, NoBlockTrim, BlockIfFull}
    /\ handle = "up" /\ current = 0
    /\ tx_write = 0 /\ tx_failed = FALSE /\ tx_bytes = <<>>
    /\ t_num = 0 /\ t_pre = 0
    /\ PrintIdle /\ TwoIdle /\ h_term = 0 /\ last_set = -1 /\ abandoned = <<>>
    /\ decl = [up |-> <<>>, down |-> <<>>]
    /\ i_pc = "done" /\ i_next = 0
    /\ id = <<>> /\ max_up \in {0, 1} /\ max_down = 0
    /\ ups = <<>> /\ downs = <<>>
    /\ scan = "none"

NextPanic ==
    \/ max_up > 0 /\ handle = "up" /\ UpWriteCall
    \/ TxOpen
    \/ TxAppend
    \/ TxCommit
    \/ PanicCall
    \/ PanicConjure
    \/ PanicSetMode
    \/ PanicWrite
    \/ FmtWriteStr
    \/ FmtDrop
    \/ HostDrain

SpecPanic == InitPanic /\ [][NextPanic]_vars

\* C19: once the handler has conjured channel 0 and writes, the mode of the
\* channel is BlockIfFull, and no byte of the buffer is stored before it is;
\* without channel 0 the handler stores nothing; and while a slice of the
\* message has bytes left, either there is room at the cursor or the host
\* has bytes to drain that make room, so that the message goes on to its end.
C19_PanicLogged ==
    /\ []((handle = "panic" /\ pc \in {"p_write", "tx_open", "f_body", "f_pay"}) =>
            Mode = BlockIfFull)
    /\ [][(handle = "panic" /\ (max_up = 0 \/ pc \in {"p_conjure", "p_setmode"})) =>
            UNCHANGED <<buffer, write>>]_vars
    /\ []((handle = "panic" /\ pc = "f_pay" /\ buf # <<>>) =>
            (FreeBytes(tx_write, read) > 0 \/ write # read))

----------------------------------------------------------------------------
\* Two channels of one control block, each owned by one context of the
\* target: channel 1 by the main program, channel 2 by an interrupt that
\* preempts it. RttChannel::read and RttChannel::write of src/src/rtt.rs with
\* self a descriptor and the buffers side by side in memory.

Chans == {1, 2}

Own(c) == IF c = "main" THEN 1 ELSE 2

Other(k) == 3 - k

\* self.buffer: the address of the first byte of the buffer of channel k.
Base(k) == IF k = 1 THEN 0 ELSE m_ch[1].size

\* The addresses of the buffer of channel k.
Region(k) == Base(k)..(Base(k) + m_ch[k].size - 1)

\* The bytes a context or the host produces on channel k.
TwoBytes(k, from, n) == [i \in 1..n |-> 100 * k + from + i]

self_readable_contiguous(self, w, r) == IF r > w THEN self.size - r ELSE w - r

\* Faulty variant: the free span ends one byte after the end of the buffer.
self_writable_contiguous_over(self, w, r) ==
    IF r > w THEN r - w - 1
    ELSE self.size - w + 1

self_writable_contiguous(self, w, r) ==
    IF r > w THEN r - w - 1
    ELSE IF r = 0 THEN self.size - w - 1
    ELSE self.size - w

\* The n bytes of the ring of channel k from index `from`.
TwoContent(k, from, n) ==
    [i \in 1..n |-> m_mem[Base(k) + ((from + i - 1) % m_ch[k].size)]]

IdleCtx == [pc |-> "idle", l_write |-> 0, l_read |-> 0, buf |-> <<>>, data |-> <<>>]

TwoFrame == UNCHANGED <<chanVars, tgtVars, histVars, txVars, printVars, initVars, muxVars, modeVars, panicVars>>

\* The interrupt preempts the main program, which goes on when the interrupt
\* has returned.
TwoRunnable(c) == c = "irq" \/ m_ctx["irq"].pc = "idle"

\* The owner of a channel calls read (down-channel) or write (up-channel)
\* with a slice of L bytes.
TwoCall(c) ==
    LET k == Own(c) IN
    /\ TwoRunnable(c) /\ m_ctx[c].pc = "idle"
    /\ \E L \in 0..MaxTwoLen :
        IF m_ch[k].dir = "up"
        THEN /\ m_produced[k] + L <= MaxTwoBytes
             /\ m_ctx' = [m_ctx EXCEPT ![c] = [IdleCtx EXCEPT !.pc = "rp",
                                                 !.buf = TwoBytes(k, m_produced[k], L)]]
             /\ m_produced' = [m_produced EXCEPT ![k] = @ + L]
        ELSE /\ m_ctx' = [m_ctx EXCEPT ![c] = [IdleCtx EXCEPT !.pc = "rp", !.buf = Zeros(L)]]
             /\ UNCHANGED m_produced
    /\ UNCHANGED <<m_ch, m_mem, m_inflight, m_fifoOk>>
    /\ TwoFrame

\* read_pointers: both indices are loaded; if one is out of range both are
\* stored as 0.
TwoReadPointers(c) ==
    LET k == Own(c)
        self == m_ch[k] IN
    /\ TwoRunnable(c) /\ m_ctx[c].pc = "rp"
    /\ IF self.write >= self.size \/ self.read >= self.size
       THEN /\ m_ch' = [m_ch EXCEPT ![k].write = 0, ![k].read = 0]
            /\ m_ctx' = [m_ctx EXCEPT ![c].pc = "loop", ![c].l_write = 0, ![c].l_read = 0]
       ELSE /\ m_ctx' = [m_ctx EXCEPT ![c].pc = "loop", ![c].l_write = self.write,
                                      ![c].l_read = self.read]
            /\ UNCHANGED m_ch
    /\ UNCHANGED <<m_mem, m_inflight, m_fifoOk, m_produced>>
    /\ TwoFrame

\* One iteration of the while loop of read or write: count, the break when it
\* is 0, the copy, the advance of the cursor with its wrap and of the slice.
TwoLoop(c) ==
    LET k == Own(c)
        self == m_ch[k]
        x == m_ctx[c]
        up == self.dir = "up"
        cnt == IF up
                 THEN min(self_writable_contiguous(self, x.l_write, x.l_read), Len(x.buf))
                 ELSE min(self_readable_contiguous(self, x.l_write, x.l_read), Len(x.buf))
        at == Base(k) + (IF up THEN x.l_write ELSE x.l_read)
        next == IF up THEN x.l_write + cnt ELSE x.l_read + cnt
        wrapped == IF next >= self.size THEN 0 ELSE next IN
    /\ TwoRunnable(c) /\ x.pc = "loop"
    /\ IF Len(x.buf) = 0 \/ cnt = 0
       THEN /\ m_ctx' = [m_ctx EXCEPT ![c].pc = "store"]
            /\ UNCHANGED m_mem
       ELSE IF up
       THEN /\ m_mem' = [a \in DOMAIN m_mem |->
                           IF a >= at /\ a < at + cnt THEN x.buf[a - at + 1] ELSE m_mem[a]]
            /\ m_ctx' = [m_ctx EXCEPT ![c].l_write = wrapped,
                                      ![c].data = @ \o SubSeq(x.buf, 1, cnt),
                                      ![c].buf = Drop(@, cnt)]
       ELSE /\ m_ctx' = [m_ctx EXCEPT ![c].l_read = wrapped,
                                      ![c].data = @ \o [i \in 1..cnt |-> Load(m_mem, at + i - 1)],
                                      ![c].buf = Drop(@, cnt)]
            /\ UNCHANGED m_mem
    /\ UNCHANGED <<m_ch, m_inflight, m_fifoOk, m_produced>>
    /\ TwoFrame

\* self.write.set(write) of write, self.read.set(read) of read; the call returns.
TwoStore(c) ==
    LET k == Own(c)
        x == m_ctx[c] IN
    /\ TwoRunnable(c) /\ x.pc = "store"
    /\ IF m_ch[k].dir = "up"
       THEN /\ m_ch' = [m_ch EXCEPT ![k].write = x.l_write]
            /\ m_inflight' = [m_inflight EXCEPT ![k] = @ \o x.data]
            /\ UNCHANGED m_fifoOk
       ELSE /\ m_ch' = [m_ch EXCEPT ![k].read = x.l_read]
            /\ m_fifoOk' = [m_fifoOk EXCEPT ![k] = @ /\ IsPrefix(x.data, m_inflight[k])]
            /\ m_inflight' = [m_inflight EXCEPT ![k] = Drop(@, Len(x.data))]
    /\ m_ctx' = [m_ctx EXCEPT ![c] = IdleCtx]
    /\ UNCHANGED <<m_mem, m_produced>>
    /\ TwoFrame

\* The host drains j bytes of an up-channel.
TwoHostDrain(k) ==
    LET self == m_ch[k] IN
    /\ self.dir = "up" /\ self.write < self.size /\ self.read < self.size
    /\ \E j \in 1..((self.write - self.read) % self.size) :
        /\ m_fifoOk' = [m_fifoOk EXCEPT ![k] = @ /\ IsPrefix(TwoContent(k, self.read, j), m_inflight[k])]
        /\ m_inflight' = [m_inflight EXCEPT ![k] = Drop(@, j)]
        /\ m_ch' = [m_ch EXCEPT ![k].read = (self.read + j) % self.size]
    /\ UNCHANGED <<m_mem, m_ctx, m_produced>>
    /\ TwoFrame

\* The host writes j bytes to a down-channel.
TwoHostWrite(k) ==
    LET self == m_ch[k] IN
    /\ self.dir = "down" /\ self.write < self.size /\ self.read < self.size
    /\ \E j \in 1..((self.read - self.write - 1) % self.size) :
        /\ m_produced[k] + j <= MaxTwoBytes
        /\ m_mem' = [a \in DOMAIN m_mem |->
                       IF a \in Region(k) /\ (a - Base(k) - self.write) % self.size < j
                       THEN 100 * k + m_produced[k] + 1 + ((a - Base(k) - self.write) % self.size)
                       ELSE m_mem[a]]
        /\ m_ch' = [m_ch EXCEPT ![k].write = (self.write + j) % self.size]
        /\ m_inflight' = [m_inflight EXCEPT ![k] = @ \o TwoBytes(k, m_produced[k], j)]
        /\ m_produced' = [m_produced EXCEPT ![k] = @ + j]
    /\ UNCHANGED <<m_ctx, m_fifoOk>>
    /\ TwoFrame

\* Two channels of any direction and size, of different modes, empty.
InitTwo ==
    /\ dir = "up" /\ size = 2
    /\ buffer = [i \in 0..1 |-> 0]
    /\ write = 0 /\ read = 0
    /\ pc = "idle" /\ op = "none"
    /\ l_write = 0 /\ l_read = 0
    /\ buf = <<>> /\ total = 0 /\ count = 0 /\ ci = 0 /\ ret = 0
    /\ produced = 0 /\ inflight = <<>> /\ fifoOk = TRUE
    /\ corrupted = FALSE /\ tainted = FALSE /\ sawCorrupt = FALSE
    /\ len0 = 0 /\ w0 = 0 /\ free0 = 0 /\ oob = FALSE /\ ncorrupt = 0 /\ pub0 = 0
    /\ flags = 0 /\ handle = "raw" /\ current = 0
    /\ tx_write = 0 /\ tx_failed = FALSE /\ tx_bytes = <<>>
    /\ t_num = 0 /\ t_pre = 0
    /\ PrintIdle /\ InitIdle /\ h_term = 0 /\ last_set = -1 /\ abandoned = <<>>
    /\ \E d \in [Chans -> {"up", "down"}], z \in [Chans -> 2..MaxTwoSize] :
         m_ch = [k \in Chans |-> [dir |-> d[k], size |-> z[k], write |-> 0, read |-> 0,
                                  flags |-> IF k = 1 THEN NoBlockSkip ELSE BlockIfFull]]
    /\ m_mem = [a \in 0..(m_ch[1].size + m_ch[2].size - 1) |-> 0]
    /\ m_ctx = [c \in Contexts |-> IdleCtx]
    /\ m_inflight = [k \in Chans |-> <<>>]
    /\ m_fifoOk = [k \in Chans |-> TRUE]
    /\ m_produced = [k \in Chans |-> 0]

NextTwo ==
    \/ \E c \in Contexts : TwoCall(c)
    \/ \E c \in Contexts : TwoReadPointers(c)
    \/ \E c \in Contexts : TwoLoop(c)
    \/ \E c \in Contexts : TwoStore(c)
    \/ \E k \in Chans : TwoHostDrain(k)
    \/ \E k \in Chans : TwoHostWrite(k)

SpecTwo == InitTwo /\ [][NextTwo]_vars

----------------------------------------------------------------------------
\* Printing in BlockIfFull mode

\* Context c is inside the print critical section, in an append of a
\* BlockIfFull channel that has bytes left and no room at its cursor.
Frozen(c) ==
    /\ owner = c /\ Mode = BlockIfFull
    /\ p_pc[c] \in {"esc", "pay"} /\ p_buf[c] # <<>>
    /\ FreeBytes(p_cur[c], read) = 0

\* C21: from a state in which a print in BlockIfFull mode spins inside the
\* critical section with no room, the only step that changes anything is a
\* store of the host to read: as long as read stays, the print does not
\* return, the critical section is not left and no context takes a step.
C21_Freeze ==
    [][(\E c \in Contexts : Frozen(c)) => read' # read]_vars

C21_Witness ==
    /\ Frozen("irq") /\ p_pc["main"] = "load"
    /\ write = read /\ p_bytes["irq"] # <<>>

----------------------------------------------------------------------------
\* The terminal multiplexer

\* C22: when the writer of a write to a terminal other than the current one
\* is dropped with its transaction failed (the escape is not published),
\* current holds the value it had before the write.
C22_CurrentIfCommitted ==
    [][(pc = "t_body" /\ pc' = "idle" /\ t_num # t_pre /\ tx_failed) =>
         current' = t_pre]_vars

\* C23: when a write to terminal n in 0..15 publishes payload bytes, the host,
\* which is on the terminal of the last escape it has read (0 before any),
\* is on terminal n when it reads them.
C23_HostDemux ==
    [][(pc = "t_body" /\ pc' = "idle" /\ t_num \in 0..15 /\ ~tx_failed) =>
         LET esc == Len(tx_bytes) >= 2 /\ tx_bytes[1] = 255
             payload == IF esc THEN Drop(tx_bytes, 2) ELSE tx_bytes
             host == IF esc THEN TerminalOf(tx_bytes[2]) ELSE h_term
         IN  payload # <<>> => host = t_num]_vars

\* C24: what a terminal write publishes is stored adjacent in the ring in one
\* step, and in it every 0xFF is immediately followed by the hex digit of the
\* terminal written to; a write to another terminal than the current one
\* publishes nothing or begins with the escape, a write to the current one
\* publishes no 0xFF.
C24_EscapeWhole ==
    [][(pc = "t_body" /\ pc' = "idle") =>
         LET pub == SubSeq(inflight', Len(inflight) + 1, Len(inflight')) IN
           /\ inflight' = inflight \o pub
           /\ \A i \in 1..Len(pub) :
                pub[i] = 255 => (i < Len(pub) /\ pub[i + 1] = TERMINAL_ID[(t_num % 16) + 1])
           /\ (t_num # t_pre /\ pub # <<>>) => pub[1] = 255
           /\ (t_num = t_pre) => \A i \in 1..Len(pub) : pub[i] # 255
           /\ RingContent(buffer', write, Len(pub)) = pub
           /\ write' = (write + Len(pub)) % size]_vars

C24_Witness ==
    /\ op = "term" /\ pc = "idle" /\ Mode = NoBlockTrim
    /\ Len(inflight) >= 3 /\ inflight[1] = 255 /\ inflight[2] = 49
    /\ write < read /\ current = 1

----------------------------------------------------------------------------
\* Writer transactions of several slices (write_fmt of UpChannel)

\* C25: in a formatted write on a NoBlockSkip channel, a slice longer than
\* the free space at the cursor sets failed; once failed, an append changes
\* neither buffer nor cursor nor the bytes of the transaction, even if its
\* slice would fit; and the drop leaves write and the bytes in flight as they
\* were before the transaction if it failed, and otherwise publishes every
\* byte of every slice.
C25_SkipAllOrNothing ==
    /\ [][(op = "fmt" /\ Mode = NoBlockSkip /\ pc = "f_pay" /\ pc' = "f_body") =>
            IF tx_failed \/ Len(buf) > FreeBytes(tx_write, read)
            THEN tx_failed' /\ UNCHANGED <<buffer, tx_write, tx_bytes, write>>
            ELSE ~tx_failed' /\ tx_bytes' = tx_bytes \o buf]_vars
    /\ [][(op = "fmt" /\ Mode = NoBlockSkip /\ pc = "f_body" /\ pc' = "idle") =>
            IF tx_failed
            THEN write' = w0 /\ write' = write /\ inflight' = inflight
            ELSE /\ inflight' = inflight \o Bytes(produced - len0, len0)
                 /\ write' = (w0 + len0) % size]_vars

C25_Witness ==
    /\ op = "fmt" /\ Mode = NoBlockSkip /\ pc = "f_pay"
    /\ tx_failed /\ tx_bytes # <<>>
    /\ Len(buf) <= FreeBytes(tx_write, read)

\* What the end of a transaction publishes: the cursor is stored to write and
\* the bytes of the transaction become the next ones the host reads, where
\* they lie in the ring from the old write index on; nothing if it failed.
Published(failed) ==
    LET pub == IF failed THEN <<>> ELSE tx_bytes IN
      /\ write' = (IF failed THEN write ELSE tx_write)
      /\ inflight' = inflight \o pub
      /\ buffer' = buffer
      /\ RingContent(buffer, write, Len(pub)) = pub

\* C26: a writer that goes out of scope at the end of write_fmt or of a
\* terminal write publishes what the explicit commit of UpChannel::write
\* publishes from the same cursor and bytes: the cursor is stored to write and
\* the bytes written are the next ones the host reads; a transaction that
\* failed under NoBlockSkip publishes nothing.
C26_DropCommits ==
    [][/\ (pc = "tx_commit" /\ pc' = "idle") => Published(tx_failed)
       /\ (pc \in {"f_body", "t_body"} /\ pc' = "idle") => Published(tx_failed)
       /\ (tx_failed /\ pc \in {"tx_commit", "f_body", "t_body", "f_pay", "t_pay"}) =>
              AppendMode = NoBlockSkip \/ op = "term"]_vars

C26_Witness ==
    /\ op = "fmt" /\ pc = "idle"
    /\ Len(inflight) >= 2 /\ write # read /\ write < read

----------------------------------------------------------------------------
\* Publication of the print channel

\* The context is past the null check of with_writer: it will enter, or is
\* inside, the closure that dereferences PRINT_TERMINAL.
PastNullCheck(c) == p_pc[c] \notin {"idle", "load"}

\* C27: whenever the critical-section pointer is non-null, PRINT_TERMINAL has
\* been written (a terminal bound to the up-channel); at the store of the
\* pointer the terminal is on terminal 0; and a context past the null check of
\* with_writer finds the terminal written. The pointer is never stored inside
\* the closure, and the terminal is written only inside it.
C27_PublicationOrder ==
    /\ [](/\ cs_ptr = "set" => term_init /\ handle = "terminal"
          /\ \A c \in Contexts : PastNullCheck(c) /\ p_pc[c] \notin {"set_write", "set_exit", "set_store"} =>
                 cs_ptr = "set" /\ term_init)
    /\ [][/\ cs_ptr' # cs_ptr => /\ term_init /\ current = 0 /\ cs_ptr' = "set"
                                 /\ \A c \in Contexts : ~PastNullCheck(c) \/ p_pc[c] = "set_store"
          /\ term_init' # term_init => owner = "main" /\ cs_ptr = "null"]_vars

C27_Witness ==
    /\ cs_ptr = "set" /\ term_init
    /\ p_pc["irq"] = "switch" /\ p_pc["main"] = "enter"
    /\ current = 1

----------------------------------------------------------------------------
\* The range of the terminal number

\* C28: current is one of 0..15 in every state, and once a terminal write has
\* appended its escape, the digit of the escape is the hex digit of current.
C28_CurrentInRange ==
    /\ current \in 0..15
    /\ (op = "term" /\ pc = "t_body" /\ t_num # t_pre /\ ~tx_failed) =>
           /\ Len(tx_bytes) >= 2
           /\ tx_bytes[2] = TERMINAL_ID[current + 1]

----------------------------------------------------------------------------
\* The mode of the escape and the mode of the payload

\* The first n bytes of s, or all of s if it is shorter.
Prefix(s, n) == SubSeq(s, 1, IF n < Len(s) THEN n ELSE Len(s))

\* C29: a terminal write never changes the flags of the channel; its escape
\* is appended whole or fails the transaction on a NoBlockTrim channel as on a
\* NoBlockSkip one; and each payload slice after it is appended with the mode
\* of the channel: trimmed to the free space on a NoBlockTrim channel, whole
\* or failing on a NoBlockSkip one, and as much as fits per attempt, never
\* failing, on a BlockIfFull one.
C29_OneShotMode ==
    [][(op = "term" /\ pc \in {"tx_open", "t_switch", "t_esc", "t_setcur", "t_body", "t_pay"}) =>
         LET free == FreeBytes(tx_write, read) IN
         /\ flags' = flags
         /\ (pc = "t_esc" /\ pc' # pc /\ Mode # BlockIfFull) =>
               IF Len(buf) <= free
               THEN ~tx_failed' /\ tx_bytes' = tx_bytes \o buf
               ELSE tx_failed' /\ tx_bytes' = tx_bytes /\ buffer' = buffer
         /\ (pc = "t_pay" /\ ~tx_failed /\ (pc' # pc \/ buf' # buf)) =>
               CASE Mode = NoBlockTrim ->
                      ~tx_failed' /\ tx_bytes' = tx_bytes \o Prefix(buf, free) /\ pc' = "t_body"
                 [] Mode = NoBlockSkip ->
                      IF Len(buf) <= free
                      THEN ~tx_failed' /\ tx_bytes' = tx_bytes \o buf
                      ELSE tx_failed' /\ tx_bytes' = tx_bytes /\ buffer' = buffer
                 [] OTHER ->
                      /\ ~tx_failed' /\ tx_bytes' = tx_bytes \o Prefix(buf, free)
                      /\ buf' = Drop(buf, Len(Prefix(buf, free)))]_vars

C29_Witness ==
    /\ op = "term" /\ pc = "t_body" /\ Mode = NoBlockTrim
    /\ t_num # t_pre /\ ~tx_failed
    /\ Len(tx_bytes) >= 3 /\ tx_bytes[1] = 255
    /\ Len(tx_bytes) - 2 < len0

----------------------------------------------------------------------------
\* UpChannel::mode and UpChannel::set_mode, and a host that stores flags

\* The modes of ChannelMode.
Modes == {NoBlockSkip, NoBlockTrim, BlockIfFull}

\* RttChannel::set_mode: the mode replaces the low two bits of flags.
SetFlags(f, m) == (f - (f % 4)) + m

\* Faulty variant: the mode is stored one bit too high.
SetModeCall_shifted(m) ==
    /\ pc = "idle" /\ handle = "up"
    /\ flags' = (2 * m) % 4
    /\ last_set' = m
    /\ op' = "set_mode"
    /\ UNCHANGED <<chanVars, pc, l_write, l_read, buf, total, count, ci, ret, histVars,
                   handle, current, tx_write, tx_failed, tx_bytes, t_num, t_pre,
                   printVars, initVars, twoVars, muxVars, panicVars>>

\* UpChannel::set_mode(mode)
SetModeCall(m) ==
    /\ pc = "idle" /\ handle = "up"
    /\ flags' = SetFlags(flags, m)
    /\ last_set' = m
    /\ op' = "set_mode"
    /\ UNCHANGED <<chanVars, pc, l_write, l_read, buf, total, count, ci, ret, histVars,
                   handle, current, tx_write, tx_failed, tx_bytes, t_num, t_pre,
                   printVars, initVars, twoVars, muxVars, panicVars>>

\* UpChannel::mode()
ModeCall ==
    /\ pc = "idle" /\ handle = "up"
    /\ ret' = Mode
    /\ op' = "mode"
    /\ UNCHANGED <<chanVars, pc, l_write, l_read, buf, total, count, ci, histVars, txVars,
                   extVars>>

\* The host stores a mode into flags while the target is between operations.
HostSetFlags ==
    /\ dir = "up" /\ pc = "idle"
    /\ \E m \in Modes : flags' = m /\ flags' # flags
    /\ last_set' = -1
    /\ UNCHANGED <<chanVars, tgtVars, histVars, handle, current, tx_write, tx_failed,
                   tx_bytes, t_num, t_pre, printVars, initVars, twoVars, muxVars, panicVars>>

\* An up-channel initialised without a declared mode, owned as an UpChannel,
\* against a host that drains it and sets its mode.
InitMode ==
    /\ dir = "up"
    /\ size \in 2..MaxTxSize
    /\ buffer = [i \in 0..(size - 1) |-> 0]
    /\ write = 0 /\ read = 0
    /\ pc = "idle" /\ op = "none"
    /\ l_write = 0 /\ l_read = 0
    /\ buf = <<>> /\ total = 0 /\ count = 0 /\ ci = 0 /\ ret = 0
    /\ produced = 0 /\ inflight = <<>> /\ fifoOk = TRUE
    /\ corrupted = FALSE /\ tainted = FALSE /\ sawCorrupt = FALSE
    /\ len0 = 0 /\ w0 = 0 /\ free0 = 0 /\ oob = FALSE /\ ncorrupt = 0 /\ pub0 = 0
    /\ flags = DefaultMode
    /\ handle = "up" /\ current = 0
    /\ tx_write = 0 /\ tx_failed = FALSE /\ tx_bytes = <<>>
    /\ t_num = 0 /\ t_pre = 0
    /\ ExtIdle

NextMode ==
    \/ \E m \in Modes : SetModeCall(m)
    \/ ModeCall
    \/ HostSetFlags
    \/ UpWriteCall
    \/ TxOpen
    \/ TxAppend
    \/ TxCommit
    \/ HostDrain

SpecMode == InitMode /\ [][NextMode]_vars

\* C30: mode() after set_mode(m), with no store of the host in between,
\* returns m; after set_mode(m) flags & 0b11 is 0 for NoBlockSkip, 1 for
\* NoBlockTrim and 2 for BlockIfFull and the other bits are zero; set_mode
\* changes no index and no buffer byte; and an append obeys the mode that is
\* in flags, whoever stored it: whole or failing for 0, cut to the free space
\* for 1, and never failing, as much as fits per attempt, for 2.
C30_ModeRoundTrip ==
    /\ [](/\ (op = "mode" /\ last_set # -1) => ret = last_set
          /\ last_set # -1 => /\ flags % 4 = last_set /\ flags = last_set
                              /\ last_set \in {0, 1, 2}
          /\ NoBlockSkip = 0 /\ NoBlockTrim = 1 /\ BlockIfFull = 2)
    /\ [][/\ (op' = "set_mode" /\ last_set' # -1 /\ (op # "set_mode" \/ last_set' # last_set)) =>
                UNCHANGED <<size, buffer, write, read, inflight>>
          /\ (pc = "tx_append" /\ ~tx_failed /\ (pc' # pc \/ buf' # buf)) =>
                LET free == FreeBytes(tx_write, read) IN
                CASE flags % 4 = 0 ->
                       IF Len(buf) <= free
                       THEN ~tx_failed' /\ tx_bytes' = tx_bytes \o buf
                       ELSE tx_failed' /\ tx_bytes' = tx_bytes /\ buffer' = buffer
                  [] flags % 4 = 1 ->
                       ~tx_failed' /\ tx_bytes' = tx_bytes \o Prefix(buf, free)
                       /\ pc' = "tx_commit"
                  [] OTHER ->
                       /\ ~tx_failed' /\ tx_bytes' = tx_bytes \o Prefix(buf, free)
                       /\ buf' = Drop(buf, Len(Prefix(buf, free)))]_vars

C30_Witness ==
    /\ op = "mode" /\ pc = "idle"
    /\ last_set = BlockIfFull /\ ret = BlockIfFull
    /\ inflight # <<>> /\ write < read

----------------------------------------------------------------------------
\* The panic handler does not return

\* The handler is in its final loop: loop { compiler_fence(SeqCst) }, reached
\* without channel 0 or after writeln! has returned.
Halted == handle = "panic" /\ pc \in {"p_halt", "idle"}

----------------------------------------------------------------------------
\* A panic while a transaction is open

\* The bytes of sequence s, as a set.
Range(s) == {s[i] : i \in 1..Len(s)}

\* C32: after a panic that found a transaction open, no byte that the
\* transaction had copied is ever among the bytes the host reads; the
\* handler's writer takes the committed write index as its cursor, write does
\* not move before the message is committed, and the message is published
\* from that index on; write and read stay below size, the bytes between read
\* and write are the published ones, and the handler never stores a write
\* index that would make a full buffer look empty.
C32_PanicOverOpenTx ==
    /\ [](handle = "panic" =>
            /\ Range(abandoned) \cap Range(inflight) = {}
            /\ InRange(write, read)
            /\ RingContent(buffer, read, (write - read) % size) = inflight)
    /\ [][handle = "panic" =>
            /\ (pc = "tx_open" /\ pc' # pc) => tx_write' = write /\ tx_bytes' = <<>>
            /\ pc # "f_body" => write' = write
            /\ write' # write =>
                 /\ pc = "f_body" /\ w0 = write
                 /\ inflight' = inflight \o Bytes(produced - len0, len0)
                 /\ len0 <= FreeBytes(write, read)
                 /\ write' = (write + len0) % size]_vars

C32_Witness ==
    /\ Halted /\ pc = "idle" /\ op = "fmt"
    /\ Len(abandoned) >= 2
    /\ Len(inflight) >= 2 /\ inflight[1] > abandoned[2]
    /\ read = 0

----------------------------------------------------------------------------
\* RttChannel::read and RttChannel::write from every pair of in-range indices

\* A channel of any size from 1 on, found with any indices below its size,
\* against a well-behaved host; the bytes already in the ring are zeros.
InitLoop ==
    /\ dir \in {"up", "down"}
    /\ size \in 1..MaxLoopSize
    /\ buffer = [i \in 0..(size - 1) |-> 0]
    /\ write \in 0..(size - 1) /\ read \in 0..(size - 1)
    /\ pc = "idle" /\ op = "none"
    /\ l_write = 0 /\ l_read = 0
    /\ buf = <<>> /\ total = 0 /\ count = 0 /\ ci = 0 /\ ret = 0
    /\ produced = 0 /\ inflight = Zeros((write - read) % size) /\ fifoOk = TRUE
    /\ corrupted = FALSE /\ tainted = FALSE /\ sawCorrupt = FALSE
    /\ len0 = 0 /\ w0 = 0 /\ free0 = 0 /\ oob = FALSE /\ ncorrupt = 0 /\ pub0 = 0
    /\ flags = 0 /\ handle = "raw" /\ current = 0
    /\ tx_write = 0 /\ tx_failed = FALSE /\ tx_bytes = <<>>
    /\ t_num = 0 /\ t_pre = 0
    /\ ExtIdle

NextLoop ==
    \/ CallWrite
    \/ CallRead
    \/ RpLoadWrite
    \/ RpLoadRead
    \/ RpCheck
    \/ LoopHead
    \/ WriteCopy
    \/ WriteStore
    \/ ReadCopy
    \/ ReadStore
    \/ HostDrain
    \/ HostWrite

SpecLoop == InitLoop /\ [][NextLoop]_vars

\* The local index that the operation in progress advances.
Cursor == IF op = "write" THEN l_write ELSE l_read

\* C33: for the size of the channel and every pair of indices below it,
\* readable_contiguous and writable_contiguous are between 0 and size; a copy
\* of the loop begins either with nothing copied yet or, a second time, at
\* index 0 after the first copy has reached the end of the buffer, and an
\* operation copies fewer than size bytes in all, so that there is no third
\* copy; every copy lies within [0, size); and the index of the peer is the
\* value loaded by read_pointers for the whole operation, whatever the host
\* stores meanwhile, so that an operation moves no more bytes than were free
\* (or pending) when it loaded the indices.
C33_LoopBounds ==
    /\ [](/\ \A w, r \in 0..(size - 1) :
                /\ readable_contiguous(w, r) \in 0..size
                /\ writable_contiguous(w, r) \in 0..size
          /\ pc \in {"loop", "copy", "store"} =>
                /\ InRange(l_write, l_read)
                /\ total <= size - 1
                /\ ~oob
          /\ pc = "copy" => /\ count >= 1
                            /\ Cursor + count <= size
                            /\ total + count <= size - 1
          /\ (pc = "store" /\ op = "write") => total <= free0
          /\ (pc = "store" /\ op = "read") => total <= pub0)
    /\ [][/\ (pc = "loop" /\ pc' = "copy") =>
                \/ total = 0
                \/ total > 0 /\ Cursor = 0 /\ total + Cursor' + count' < size
          /\ (pc = "copy" /\ pc' = "loop" /\ total > 0) => Cursor' # 0
          /\ (pc \in {"loop", "copy"} /\ op = "write") => l_read' = l_read
          /\ (pc \in {"loop", "copy"} /\ op = "read") => l_write' = l_write
          /\ (pc = "rp_check" /\ pc' = "loop") =>
                l_write' = l_write /\ l_read' = l_read]_vars

C33_Witness ==
    /\ op = "write" /\ pc = "copy"
    /\ total > 0 /\ l_write = 0 /\ count >= 1
    /\ read # l_read

====
